---- MODULE Spec2Model ----
(***************************************************************************)
(* Model of the false-breakout bot's decision layer:                       *)
(*   - bot/state.py      PersistentState.from_dict / to_dict, StateStore   *)
(*   - bot/runner.py     FalseBreakoutRunner.check_symbol / process_signal *)
(*   - bot/marketdata.py MarketDataService.fetch_ohlcv over                *)
(*                       core/exchange.py Exchange.fetch_ohlcv             *)
(*   - handlers.py       _scheduled_job, _trade_step_symbol, /run, /stop   *)
(*   - core/scheduler.py Scheduler.enable / disable / _runner              *)
(* The state file logs/state.json is a JSON object: a function from keys   *)
(* to values.  Prices are integers (ticks), time is counted in hours and   *)
(* stored in milliseconds as the code stores it.                           *)
(***************************************************************************)
EXTENDS Integers, Sequences, FiniteSets, TLC

VARIABLES
    file,      \* content of logs/state.json (a JSON object; <<>> when absent)
    now,       \* wall clock, in hours since the epoch
    settings,  \* core.config.settings, read from the environment at start
    cur,       \* which activity holds the thread / event loop
    runner,    \* FalseBreakoutRunner.check_symbol in progress
    hist,      \* per symbol: what the previous runner cycles did
    sched,     \* core.scheduler.Scheduler: _enabled and the state of its task
    job,       \* handlers._scheduled_job in progress, and how the last one ended
    cmd,       \* the command handler (/run, /stop) in progress
    fetch,     \* one market-data fetch: MarketDataService.fetch_ohlcv in progress
    rt,        \* one state record on its way through StateStore.load and save
    strat      \* one call of a function of core/strategy: its arguments and result

vars == <<file, now, settings, cur, runner, hist, sched, job, cmd, fetch, rt, strat>>

\* the variables of the application around the runner
appvars == <<sched, job, cmd>>

\* the variables of the fetch and of the state record
libvars == <<fetch, rt, strat>>

---------------------------------------------------------------------------
(* Bounds of the model *)

\* The clock stops advancing at this hour.
MaxNow == 10

(* Program constants *)

\* COOLDOWN_HOURS default
CooldownHoursDefault == 8
\* MAX_OPEN_POSITIONS default
MaxOpenPositionsDefault == 3
\* RISK_PCT default 0.01, in percent
RiskPct == 1
\* milliseconds per hour: time.time() * 1000, last_at / 1000, timedelta(hours=..)
MsPerHour == 3600000
\* hours per UTC day: datetime.fromtimestamp(..., tz=utc).date()
HoursPerDay == 24

Symbols == {"BTC", "ETH"}

---------------------------------------------------------------------------
(* JSON objects (python dicts) as functions *)

EmptyDict == <<>>

Get(d, k, default) == IF k \in DOMAIN d THEN d[k] ELSE default

Put(d, k, v) == [x \in (DOMAIN d) \cup {k} |-> IF x = k THEN v ELSE d[x]]

\* dict.update: the entries of b override those of a
Update(a, b) == [x \in (DOMAIN a) \cup (DOMAIN b) |-> IF x \in DOMAIN b THEN b[x] ELSE a[x]]

\* python None where an event id is expected
NoId == <<>>

---------------------------------------------------------------------------
(* bot/state.py *)

KnownKeys == {"armed", "consec_losses", "symbols", "last_events", "last_notified_at"}

\* PersistentState() : the dataclass defaults
DefaultState ==
    [armed |-> FALSE, consec_losses |-> 0, symbols |-> <<>>,
     last_events |-> EmptyDict, last_notified_at |-> EmptyDict, extra |-> EmptyDict]

\* PersistentState.from_dict: known keys read with their defaults
\* (x or default), every other key collected into extra.
from_dict(payload) ==
    LET armed == Get(payload, "armed", FALSE)
        losses == Get(payload, "consec_losses", 0)
        syms == Get(payload, "symbols", <<>>)
        evs == Get(payload, "last_events", EmptyDict)
        nts == Get(payload, "last_notified_at", EmptyDict)
    IN  [armed |-> (armed = TRUE),
         consec_losses |-> IF losses = 0 THEN 0 ELSE losses,
         symbols |-> IF syms = <<>> THEN <<>> ELSE syms,
         last_events |-> IF evs = EmptyDict THEN EmptyDict ELSE evs,
         last_notified_at |-> IF nts = EmptyDict THEN EmptyDict ELSE nts,
         extra |-> [k \in (DOMAIN payload) \ KnownKeys |-> payload[k]]]

\* A bug to_dict could have: the extension fields are not merged back.
to_dict_drops_extra(s) ==
    [k \in KnownKeys |-> s[k]]

\* PersistentState.to_dict: asdict, pop "extra", update with it.
to_dict(s) ==
    LET payload == [k \in KnownKeys \cup {"extra"} |-> s[k]]
        extra == payload["extra"]
        rest == [k \in (DOMAIN payload) \ {"extra"} |-> payload[k]]
    IN  Update(rest, extra)

\* StateStore.load: a missing file reads as PersistentState()
StoreLoad(f) == from_dict(f)

\* StateStore.save
StoreSave(s) == to_dict(s)

\* no function of core/strategy is being called
NoCall == [pc |-> "none"]

\* no record is on its way
NoRecord == [pc |-> "none", raw |-> EmptyDict, state |-> DefaultState,
             written |-> EmptyDict, again |-> DefaultState]

---------------------------------------------------------------------------
(* bot/reporting.py *)

\* datetime.fromtimestamp(ts / 1000, utc).date()
DayOf(ts) == (ts \div MsPerHour) \div HoursPerDay

\* round(level, 4), levels counted in units of 0.00001
Round4(level) ==
    LET q == level \div 10
        r == level % 10
    IN  IF r < 5 THEN q
        ELSE IF r > 5 THEN q + 1
        ELSE IF q % 2 = 0 THEN q ELSE q + 1

\* make_event_id: symbol | UTC day | side | rounded level | level source
make_event_id(symbol, breakout) ==
    <<symbol, DayOf(breakout.ts), breakout.side, Round4(breakout.level), breakout.level_source>>

---------------------------------------------------------------------------
(* Inputs: what analyze_symbol can hand to process_signal *)

\* BreakoutInfo (the fields the decision uses) with its rounded PlannedTrade
Candidates ==
    { [breakout |-> [ts |-> 1 * MsPerHour, side |-> "long", level |-> 1000000, level_source |-> "prev_low"],
       trade |-> [side |-> "long", entry |-> 101, sl |-> 99, tp |-> 107]],
      [breakout |-> [ts |-> 2 * MsPerHour, side |-> "long", level |-> 1000004, level_source |-> "prev_low"],
       trade |-> [side |-> "long", entry |-> 102, sl |-> 98, tp |-> 114]],
      [breakout |-> [ts |-> 1 * MsPerHour, side |-> "short", level |-> 1100000, level_source |-> "prev_high"],
       trade |-> [side |-> "short", entry |-> 109, sl |-> 111, tp |-> 103]],
      \* the first breakout again, entry and stop rounded onto each other
      [breakout |-> [ts |-> 1 * MsPerHour, side |-> "long", level |-> 1000000, level_source |-> "prev_low"],
       trade |-> [side |-> "long", entry |-> 100, sl |-> 100, tp |-> 100]] }

NoCand == [symbol |-> "", breakout |-> [ts |-> 0, side |-> "", level |-> 0, level_source |-> ""],
           trade |-> [side |-> "", entry |-> 0, sl |-> 0, tp |-> 0]]

\* fetch_positions: -1 stands for both attempts raising
PositionInputs == {-1, 0, MaxOpenPositionsDefault}

\* fetch_balance: -1 stands for the call raising, else the free USDT
BalanceInputs == {-1, 0, 1000}

\* the environments the process can be started in; RISK_PCT is in percent,
\* and a risk of zero is drawn for one live environment only
SettingsSpace ==
    { s \in [DEDUP_BY_BREAKOUT : {0, 1}, COOLDOWN_HOURS : {0, CooldownHoursDefault},
             DRY_RUN : {0, 1}, MAX_OPEN_POSITIONS : {0, MaxOpenPositionsDefault},
             RISK_PCT : {0, RiskPct}] :
        /\ s.DRY_RUN = 1 => s.MAX_OPEN_POSITIONS = MaxOpenPositionsDefault
        /\ s.RISK_PCT = 0 => /\ s.DRY_RUN = 0 /\ s.MAX_OPEN_POSITIONS = 0
                             /\ s.DEDUP_BY_BREAKOUT = 1
                             /\ s.COOLDOWN_HOURS = CooldownHoursDefault }

\* the defaults of core/config.py
DefaultSettings ==
    [DEDUP_BY_BREAKOUT |-> 1, COOLDOWN_HOURS |-> CooldownHoursDefault,
     DRY_RUN |-> 1, MAX_OPEN_POSITIONS |-> MaxOpenPositionsDefault,
     RISK_PCT |-> RiskPct]

---------------------------------------------------------------------------
(* bot/risk.py *)

\* A failed query counted as a full book.
open_position_count_fails_closed(raw) == IF raw < 0 THEN MaxOpenPositionsDefault ELSE raw

\* open_position_count: both fetch_positions attempts failing counts as 0
open_position_count(raw) == IF raw < 0 THEN 0 ELSE raw

Abs(x) == IF x < 0 THEN -x ELSE x

Max(a, b) == IF a >= b THEN a ELSE b

\* calc_qty_from_risk, amount_to_precision truncating to whole contracts
calc_qty_from_risk(free_usdt, entry, sl, risk_pct) ==
    LET risk_usdt == Max(0, (free_usdt * risk_pct) \div 100)
        distance == Abs(entry - sl)
    IN  IF risk_usdt <= 0 \/ distance <= 0 THEN 0
        ELSE Max(0, risk_usdt \div distance)

---------------------------------------------------------------------------
(* bot/runner.py *)

\* A bug the cooldown test could have: > where the code has >=.
cooldown_passed_strict(state, symbol) ==
    LET cooldown_hours == settings.COOLDOWN_HOURS
        last_at == Get(state.last_notified_at, symbol, 0)
    IN  IF cooldown_hours <= 0 THEN TRUE
        ELSE IF last_at = 0 THEN TRUE
        ELSE now * MsPerHour - last_at > cooldown_hours * MsPerHour

\* A bug the cooldown test could have: the window taken twice as long.
cooldown_passed_double(state, symbol) ==
    LET cooldown_hours == settings.COOLDOWN_HOURS
        last_at == Get(state.last_notified_at, symbol, 0)
    IN  IF cooldown_hours <= 0 THEN TRUE
        ELSE IF last_at = 0 THEN TRUE
        ELSE now * MsPerHour - last_at >= 2 * cooldown_hours * MsPerHour

\* FalseBreakoutRunner._cooldown_passed
cooldown_passed(state, symbol) ==
    LET cooldown_hours == settings.COOLDOWN_HOURS
        last_at == Get(state.last_notified_at, symbol, 0)
    IN  IF cooldown_hours <= 0 THEN TRUE
        ELSE IF last_at = 0 THEN TRUE
        ELSE now * MsPerHour - last_at >= cooldown_hours * MsPerHour

\* A bug the duplicate test could have: the stored id looked up under the
\* wrong key (the side of the event instead of the symbol).
is_duplicate_wrong_key(state, symbol, event_id) ==
    settings.DEDUP_BY_BREAKOUT # 0 /\ Get(state.last_events, event_id[3], NoId) = event_id

\* A bug the duplicate test could have: nothing is ever a duplicate.
is_duplicate_never(state, symbol, event_id) == FALSE

\* process_signal, lines 108-109: the duplicate test
is_duplicate(state, symbol, event_id) ==
    settings.DEDUP_BY_BREAKOUT # 0 /\ Get(state.last_events, symbol, NoId) = event_id

\* A bug the commit could have: only the notification time is recorded.
commit_event_time_only(state, symbol, event_id) ==
    [state EXCEPT !.last_notified_at = Put(@, symbol, now * MsPerHour)]

\* A bug the commit could have: the events of the other symbols forgotten.
commit_event_forgets_others(state, symbol, event_id) ==
    [state EXCEPT !.last_events = Put(EmptyDict, symbol, event_id),
                  !.last_notified_at = Put(@, symbol, now * MsPerHour)]

\* process_signal, lines 113-114: record the event and the notification time
commit_event(state, symbol, event_id) ==
    [state EXCEPT !.last_events = Put(@, symbol, event_id),
                  !.last_notified_at = Put(@, symbol, now * MsPerHour)]

NoResult == [symbol |-> "", decision |-> "", executed |-> FALSE, skip_reason |-> <<>>,
             tag |-> "", event_id |-> NoId, why |-> ""]

\* SignalDecision(symbol, message + tag, executed, skip_reason)
Decision(symbol, tag, executed, skip_reason, event_id) ==
    [symbol |-> symbol, decision |-> "decision", executed |-> executed,
     skip_reason |-> skip_reason, tag |-> tag, event_id |-> event_id, why |-> "decided"]

\* process_signal / check_symbol returning None
NoDecision(symbol, event_id, why) ==
    [symbol |-> symbol, decision |-> "none", executed |-> FALSE, skip_reason |-> <<>>,
     tag |-> "", event_id |-> event_id, why |-> why]

\* last_id, last_at: what state.last_events.get(symbol) and
\* state.last_notified_at.get(symbol) were when the state was loaded;
\* raised: both fetch_positions attempts of open_position_count raised
RunnerIdle == [pc |-> "idle", cand |-> NoCand, st |-> DefaultState, event_id |-> NoId,
               last_id |-> NoId, last_at |-> 0,
               qty |-> 0, calls |-> <<>>, result |-> NoResult,
               count |-> 0, free |-> 0, raised |-> FALSE]

\* the history of a symbol after a cycle returned `result`: the event id the
\* cycle computed (none without a candidate), whether it committed it, the
\* last event id a cycle committed, and the last one whose order raised
Remember(h, result) ==
    [prev |-> IF result.why \in {"dup", "cooldown", "decided"} THEN result.event_id ELSE h.prev,
     prev_committed |-> IF result.why \in {"dup", "cooldown", "decided"} THEN (result.why = "decided") ELSE h.prev_committed,
     committed |-> IF result.why = "decided" THEN result.event_id ELSE h.committed,
     failed |-> IF result.skip_reason = <<"order">> THEN result.event_id ELSE h.failed]

\* the runner returns its result; the caller has it next
Return(result) ==
    /\ runner' = [runner EXCEPT !.pc = "returned", !.result = result]
    /\ cur' = "runner"

\* check_symbol: analyze_symbol raises (the fetch failed) or finds no candidate
CheckSymbolNoCandidate(symbol) ==
    /\ cur = "idle"
    /\ \E raised \in BOOLEAN :
          runner' = [RunnerIdle EXCEPT
                        !.pc = "returned",
                        !.result = IF raised
                                   THEN [NoResult EXCEPT !.symbol = symbol, !.decision = "raised"]
                                   ELSE NoDecision(symbol, NoId, "no_candidate")]
    /\ cur' = "runner"
    /\ UNCHANGED <<file, now, settings, hist, appvars, libvars>>

\* check_symbol has returned: the caller takes the result, the thread is free
CheckSymbolReturn ==
    /\ cur = "runner" /\ runner.pc = "returned"
    /\ runner' = RunnerIdle
    /\ cur' = "idle"
    /\ hist' = [hist EXCEPT ![runner.result.symbol] = Remember(@, runner.result)]
    /\ UNCHANGED <<file, now, settings, appvars, libvars>>

\* check_symbol: analyze_symbol returns a candidate; process_signal loads the
\* state and computes the event id (lines 106-107)
CheckSymbolCandidate(symbol) ==
    /\ cur = "idle"
    /\ \E c \in Candidates :
          runner' = [RunnerIdle EXCEPT
                        !.pc = "loaded",
                        !.cand = [symbol |-> symbol, breakout |-> c.breakout, trade |-> c.trade],
                        !.st = StoreLoad(file),
                        !.last_id = Get(StoreLoad(file).last_events, symbol, NoId),
                        !.last_at = Get(StoreLoad(file).last_notified_at, symbol, 0),
                        !.event_id = make_event_id(symbol, c.breakout)]
    /\ cur' = "runner"
    /\ UNCHANGED <<file, now, settings, hist, appvars, libvars>>

\* the step after the dedup and cooldown tests pass
AfterGateSkipsSave == "decide"

AfterGate == "commit"

\* process_signal, lines 108-114
ProcessSignalGate ==
    /\ cur = "runner" /\ runner.pc = "loaded"
    /\ LET symbol == runner.cand.symbol
           event_id == runner.event_id
       IN  IF is_duplicate(runner.st, symbol, event_id)
           THEN Return(NoDecision(symbol, event_id, "dup"))
           ELSE IF ~cooldown_passed(runner.st, symbol)
           THEN Return(NoDecision(symbol, event_id, "cooldown"))
           ELSE /\ runner' = [runner EXCEPT !.pc = AfterGate,
                                            !.st = commit_event(runner.st, symbol, event_id)]
                /\ cur' = cur
    /\ UNCHANGED <<file, now, settings, hist, appvars, libvars>>

\* process_signal, line 115: state_store.save(state)
ProcessSignalSave ==
    /\ cur = "runner" /\ runner.pc = "commit"
    /\ file' = StoreSave(runner.st)
    /\ runner' = [runner EXCEPT !.pc = "decide"]
    /\ UNCHANGED <<now, settings, cur, hist, appvars, libvars>>

\* A bug the dry-run test could have: the flag read the wrong way round.
dry_run_inverted == settings.DRY_RUN = 0

\* process_signal, line 119: if int(settings.DRY_RUN)
dry_run == settings.DRY_RUN # 0

\* process_signal, lines 117-122: dry run, else on to the position cap
ProcessSignalDecide ==
    /\ cur = "runner" /\ runner.pc = "decide"
    /\ IF dry_run
       THEN Return(Decision(runner.cand.symbol, "[DRY_RUN]", FALSE, <<>>, runner.event_id))
       ELSE /\ runner' = [runner EXCEPT !.pc = IF settings.MAX_OPEN_POSITIONS > 0
                                                THEN "positions" ELSE "balance"]
            /\ cur' = cur
    /\ UNCHANGED <<file, now, settings, hist, appvars, libvars>>

\* the cap test passing a count equal to the cap
at_cap_strict(count, max_positions) == count > max_positions

\* open_position_count(self.exchange) >= max_positions
at_cap(count, max_positions) == count >= max_positions

\* process_signal, lines 123-125: open_position_count against the cap
ProcessSignalPositions ==
    /\ cur = "runner" /\ runner.pc = "positions"
    /\ \E raw \in PositionInputs :
          LET max_positions == settings.MAX_OPEN_POSITIONS
              calls == Append(runner.calls, "open_position_count")
              count == open_position_count(raw)
          IN  IF at_cap(count, max_positions)
              THEN /\ runner' = [runner EXCEPT !.pc = "returned", !.calls = calls,
                                    !.count = count, !.raised = raw < 0,
                                    !.result = Decision(runner.cand.symbol, "[SKIP: positions>=N]", FALSE,
                                                        <<"positions>=", max_positions>>, runner.event_id)]
                   /\ cur' = cur
              ELSE /\ runner' = [runner EXCEPT !.pc = "balance", !.calls = calls,
                                                !.count = count, !.raised = raw < 0]
                   /\ cur' = cur
    /\ UNCHANGED <<file, now, settings, hist, appvars, libvars>>

\* fetch_balance raised (line 130)
balance_raised(bal) == bal < 0

\* the size test letting a size of zero through
no_size_negative_only(qty) == qty < 0

\* if qty <= 0 (line 141)
no_size(qty) == qty <= 0

\* process_signal, lines 127-142: fetch_balance and the position size
ProcessSignalBalance ==
    /\ cur = "runner" /\ runner.pc = "balance"
    /\ \E bal \in BalanceInputs :
          LET calls == Append(runner.calls, "fetch_balance")
              qty == calc_qty_from_risk(bal, runner.cand.trade.entry, runner.cand.trade.sl,
                                        settings.RISK_PCT)
          IN  IF balance_raised(bal)
              THEN /\ runner' = [runner EXCEPT !.pc = "returned", !.calls = calls,
                                    !.free = bal,
                                    !.result = Decision(runner.cand.symbol, "[BALANCE ERROR]", FALSE,
                                                        <<"balance">>, runner.event_id)]
                   /\ cur' = cur
              ELSE IF no_size(qty)
              THEN /\ runner' = [runner EXCEPT !.pc = "returned", !.calls = calls,
                                    !.free = bal,
                                    !.result = Decision(runner.cand.symbol, "[SKIP: qty<=0]", FALSE,
                                                        <<"qty">>, runner.event_id)]
                   /\ cur' = cur
              ELSE /\ runner' = [runner EXCEPT !.pc = "order", !.calls = calls, !.qty = qty,
                                                !.free = bal]
                   /\ cur' = cur
    /\ UNCHANGED <<file, now, settings, hist, appvars, libvars>>

\* process_signal, lines 144-169: place_bracket_order succeeds or raises
ProcessSignalOrder ==
    /\ cur = "runner" /\ runner.pc = "order"
    /\ \E ok \in BOOLEAN :
          LET calls == Append(runner.calls, "place_bracket_order")
              symbol == runner.cand.symbol
          IN  runner' = [runner EXCEPT !.pc = "returned", !.calls = calls,
                            !.result = IF ok
                                       THEN Decision(symbol, "[ORDER SENT]", TRUE, <<>>, runner.event_id)
                                       ELSE Decision(symbol, "[ORDER ERROR]", FALSE, <<"order">>, runner.event_id)]
    /\ UNCHANGED <<file, now, settings, cur, hist, appvars, libvars>>

\* time passes between cycles
Tick ==
    /\ cur = "idle"
    /\ now < MaxNow
    /\ \E d \in {3, 5} : now + d <= MaxNow /\ now' = now + d
    /\ UNCHANGED <<file, settings, cur, runner, hist, appvars, libvars>>

---------------------------------------------------------------------------
(* handlers.py: helpers *)

\* settings.SYMBOL
BaseSymbol == "BTC"

\* _build_linear_perp_set: the active linear swaps of the exchange
allowed_linear == {"BTC", "ETH"}

\* UNIVERSE_SYMBOLS of the environment
Universe == <<"BTC", "ETH">>

InSeq(s, x) == \E i \in 1..Len(s) : s[i] = x

\* the loop of _sanitize_symbols that keeps first occurrences
RECURSIVE uniq(_, _)
uniq(out, acc) ==
    IF out = <<>> THEN acc
    ELSE uniq(Tail(out), IF InSeq(acc, Head(out)) THEN acc ELSE Append(acc, Head(out)))

\* _sanitize_symbols (symbols are kept stripped and upper-case throughout)
sanitize_symbols(symbols, allowed) ==
    LET kept == SelectSeq(symbols, LAMBDA u : u \in allowed)
        out == IF BaseSymbol \in allowed /\ ~InSeq(kept, BaseSymbol)
               THEN Append(kept, BaseSymbol) ELSE kept
    IN  uniq(out, <<>>)

\* _universe_symbols: the manual list if it survives, else [settings.SYMBOL]
universe_symbols ==
    LET arr == sanitize_symbols(Universe, allowed_linear)
    IN  IF arr # <<>> THEN arr ELSE sanitize_symbols(<<BaseSymbol>>, allowed_linear)

\* dict.setdefault
SetDefault(d, k, v) == IF k \in DOMAIN d THEN d ELSE Put(d, k, v)

\* register_handlers, lines 329-336: what it saves given the file it loads
register_handlers(f) ==
    LET s1 == SetDefault(f, "consec_losses", 0)
        s2 == SetDefault(s1, "armed", FALSE)
        s3 == SetDefault(s2, "symbols", <<>>)
        s4 == SetDefault(s3, "last_events", EmptyDict)
        s5 == SetDefault(s4, "last_notified_at", EmptyDict)
        syms == IF s5["symbols"] = <<>> THEN <<BaseSymbol>> ELSE s5["symbols"]
    IN  Put(s5, "symbols", sanitize_symbols(syms, allowed_linear))

\* round(level, 2), levels counted in units of 0.001
Round2(level) ==
    LET q == level \div 10
        r == level % 10
    IN  IF r < 5 THEN q
        ELSE IF r > 5 THEN q + 1
        ELSE IF q % 2 = 0 THEN q ELSE q + 1

\* _make_event_id: UTC day | side | rounded level | index of the breakout candle
handlers_make_event_id(c) == <<DayOf(c.ts), c.side, Round2(c.level), c.idx>>

\* handlers._cooldown_passed: reads the state file itself
handlers_cooldown_passed(symbol) ==
    LET cd_h == settings.COOLDOWN_HOURS
        last_at == Get(Get(file, "last_notified_at", EmptyDict), symbol, 0)
    IN  IF cd_h <= 0 THEN TRUE
        ELSE IF last_at = 0 THEN TRUE
        ELSE now * MsPerHour - last_at >= cd_h * MsPerHour

\* _calc_qty_from_risk_linear_usdt, amount_to_precision truncating
calc_qty_from_risk_linear_usdt(free_usdt, risk_pct, entry, sl) ==
    LET risk_usdt == Max(0, (free_usdt * risk_pct) \div 100)
        dist == Abs(entry - sl)
    IN  IF risk_usdt <= 0 \/ dist <= 0 THEN 0
        ELSE Max(0, risk_usdt \div dist)

\* what _detect_today_fakeout_and_signal and plan_trade can hand to the step:
\* info (side, idx, level), the time of the breakout candle, the signal
StepCandidates ==
    { [ts |-> 1 * MsPerHour, side |-> "long", level |-> 100000, idx |-> 5,
       entry |-> 101, sl |-> 99, tp |-> 107],
      [ts |-> 2 * MsPerHour, side |-> "short", level |-> 110000, idx |-> 7,
       entry |-> 109, sl |-> 111, tp |-> 103] }

NoStepCand == [ts |-> 0, side |-> "", level |-> 0, idx |-> 0, entry |-> 0, sl |-> 0, tp |-> 0]

\* how the fetch and detection part of _trade_step_symbol can end: a fetch
\* raises (caught, lines 526-528), nothing to signal (line 533), the detection
\* raises (an empty hourly series at line 269), or a signal
StepInputs == {"fetch_error", "no_signal", "detect_raises", "signal"}

\* the places where a coroutine awaits something that can suspend it:
\* m.send_text in the job (line 594) and in the commands (lines 600, 605)
AwaitPointsWithLoad == {"send", "reply", "loaded"}

AwaitPoints == {"send", "reply"}

\* activity `a`, standing at `pc`, can take its next step
Runs(a, pc) == cur = a \/ (cur = "idle" /\ pc \in AwaitPoints)

\* who holds the event loop once activity `a` stands at `pc`
Land(a, pc) == IF pc \in AwaitPoints THEN "idle" ELSE a

SchedOff == [enabled |-> FALSE, task |-> "none"]

\* Scheduler.enable
enable(s) ==
    IF s.enabled THEN s
    ELSE [enabled |-> TRUE, task |-> IF s.task \in {"none", "done"} THEN "waiting" ELSE s.task]

\* Scheduler.disable
disable(s) == [s EXCEPT !.enabled = FALSE]

\* no job yet; outcome, symbols and i stay after a job for the record
JobIdle == [pc |-> "idle", symbols |-> <<>>, i |-> 0, snap |-> EmptyDict, st |-> EmptyDict,
            cand |-> NoStepCand, this_id |-> NoId, calls |-> <<>>, msg |-> "", outcome |-> "none",
            free |-> 0]

CmdIdle == [pc |-> "idle", kind |-> "", snap |-> EmptyDict, st |-> EmptyDict]

---------------------------------------------------------------------------
(* core/scheduler.py and handlers.py: the scheduled job and the commands *)

\* the job's exception escaping _runner: the task ends with it
JobEndsUncaught(outcome) ==
    /\ job' = [JobIdle EXCEPT !.outcome = outcome, !.symbols = job.symbols, !.i = job.i]
    /\ sched' = [sched EXCEPT !.task = IF outcome = "aborted" THEN "done" ELSE "waiting"]
    /\ cur' = "idle"

\* _scheduled_job returns or raises; Scheduler._runner logs what it raised
\* (lines 60-61) and sleeps (line 62)
JobEnds(outcome) ==
    /\ job' = [JobIdle EXCEPT !.outcome = outcome, !.symbols = job.symbols, !.i = job.i]
    /\ sched' = [sched EXCEPT !.task = "waiting"]
    /\ cur' = "idle"

\* _trade_step_symbol returned None: the loop of _scheduled_job moves on
StepReturnsNone ==
    /\ job' = [job EXCEPT !.pc = "loop", !.i = @ + 1, !.cand = NoStepCand, !.this_id = NoId,
                          !.snap = EmptyDict, !.st = EmptyDict, !.calls = <<>>, !.msg = "",
                          !.free = 0]
    /\ cur' = "job"

\* _trade_step_symbol returned a message: _scheduled_job awaits m.send_text
StepReturns(msg, calls) ==
    /\ job' = [job EXCEPT !.pc = "send", !.msg = msg, !.calls = calls]
    /\ cur' = Land("job", "send")

\* ... after fetch_balance raised (free < 0) or returned free
StepReturnsAfter(msg, calls, free) ==
    /\ job' = [job EXCEPT !.pc = "send", !.msg = msg, !.calls = calls, !.free = free]
    /\ cur' = Land("job", "send")

\* Scheduler._runner, lines 56-59: the sleep is over (or the task has just
\* been created); the loop ends if disabled, else the job starts and loads
\* the state (handlers.py line 584)
SchedulerRunner ==
    /\ cur = "idle" /\ sched.task = "waiting"
    /\ IF sched.enabled
       THEN /\ sched' = [sched EXCEPT !.task = "running"]
            /\ job' = [JobIdle EXCEPT !.pc = "loaded", !.snap = file, !.st = file]
            /\ cur' = Land("job", "loaded")
       ELSE /\ sched' = [sched EXCEPT !.task = "done"]
            /\ UNCHANGED <<job, cur, libvars>>
    /\ UNCHANGED <<file, now, settings, runner, hist, cmd, libvars>>

\* A bug the gate could have: every cycle taken as armed.
is_armed_always(st) == TRUE

\* st.get("armed", False) (line 585)
is_armed(st) == Get(st, "armed", FALSE) = TRUE

\* _scheduled_job, lines 585-590
ScheduledJobArmed ==
    /\ job.pc = "loaded" /\ Runs("job", job.pc)
    /\ IF ~is_armed(job.st)
       THEN JobEnds("not_armed") /\ UNCHANGED file
       ELSE LET kept == sanitize_symbols(Get(job.st, "symbols", <<>>), allowed_linear)
                symbols == IF kept = <<>> THEN universe_symbols ELSE kept
                st == IF kept = <<>> THEN Put(job.st, "symbols", symbols) ELSE job.st
            IN  /\ file' = IF kept = <<>> THEN st ELSE file
                /\ job' = [job EXCEPT !.pc = "loop", !.symbols = symbols, !.i = 1,
                                      !.snap = EmptyDict, !.st = EmptyDict]
                /\ cur' = "job"
                /\ UNCHANGED sched
    /\ UNCHANGED <<now, settings, runner, hist, cmd, libvars>>

\* the loop over the symbols also ending once the scheduler is disabled
symbols_done_or_disabled(j, s) == j.i > Len(j.symbols) \/ ~s.enabled

\* for symbol in symbols (line 591): the list is exhausted
symbols_done(j, s) == j.i > Len(j.symbols)

\* _scheduled_job, line 591: no symbol is left
ScheduledJobDone ==
    /\ job.pc = "loop" /\ cur = "job"
    /\ symbols_done(job, sched)
    /\ JobEnds("finished")
    /\ UNCHANGED <<file, now, settings, runner, hist, cmd, libvars>>

\* _trade_step_symbol, lines 522-539: fetch, detect, load the state
TradeStepFetch ==
    /\ job.pc = "loop" /\ cur = "job"
    /\ job.i <= Len(job.symbols)
    /\ \E inp \in StepInputs :
          CASE inp \in {"fetch_error", "no_signal"} -> StepReturnsNone /\ UNCHANGED sched
            [] inp = "detect_raises" -> JobEnds("aborted")
            [] inp = "signal" ->
                  \E c \in StepCandidates :
                     /\ job' = [job EXCEPT !.pc = "step_loaded", !.cand = c,
                                           !.snap = file, !.st = file,
                                           !.this_id = handlers_make_event_id(c)]
                     /\ cur' = "job"
                     /\ UNCHANGED sched
    /\ UNCHANGED <<file, now, settings, runner, hist, cmd, libvars>>

\* _trade_step_symbol, lines 537-546: dedup, cooldown, the new event in st_local
TradeStepGate ==
    /\ job.pc = "step_loaded" /\ cur = "job"
    /\ LET symbol == job.symbols[job.i]
           last_id == Get(Get(job.st, "last_events", EmptyDict), symbol, NoId)
           st1 == SetDefault(job.st, "last_events", EmptyDict)
           st2 == Put(st1, "last_events", Put(st1["last_events"], symbol, job.this_id))
           st3 == SetDefault(st2, "last_notified_at", EmptyDict)
           st4 == Put(st3, "last_notified_at", Put(st3["last_notified_at"], symbol, now * MsPerHour))
       IN  IF last_id = job.this_id \/ ~handlers_cooldown_passed(symbol)
           THEN StepReturnsNone
           ELSE /\ job' = [job EXCEPT !.pc = "step_commit", !.st = st4]
                /\ cur' = "job"
    /\ UNCHANGED <<file, now, settings, runner, hist, sched, cmd, libvars>>

\* _trade_step_symbol, line 547: _save_state(st_local)
TradeStepSave ==
    /\ job.pc = "step_commit" /\ cur = "job"
    /\ file' = job.st
    /\ job' = [job EXCEPT !.pc = "step_act"]
    /\ UNCHANGED <<now, settings, cur, runner, hist, sched, cmd, libvars>>

\* _trade_step_symbol, lines 549-557: stops recalculated (price_to_precision
\* can raise), then the dry run
TradeStepDecide ==
    /\ job.pc = "step_act" /\ cur = "job"
    /\ \E raises \in BOOLEAN :
          IF raises THEN JobEnds("aborted")
          ELSE IF dry_run THEN StepReturns("[DRY_RUN]", job.calls) /\ UNCHANGED sched
          ELSE /\ job' = [job EXCEPT !.pc = "step_balance"]
               /\ cur' = "job"
               /\ UNCHANGED sched
    /\ UNCHANGED <<file, now, settings, runner, hist, cmd, libvars>>

\* _trade_step_symbol, lines 561-568 and 579-581: balance and size
TradeStepBalance ==
    /\ job.pc = "step_balance" /\ cur = "job"
    /\ \E bal \in BalanceInputs :
          LET calls == Append(job.calls, "fetch_balance")
              qty == calc_qty_from_risk_linear_usdt(bal, settings.RISK_PCT, job.cand.entry, job.cand.sl)
          IN  IF bal < 0 THEN StepReturnsAfter("[ORDER ERROR]", calls, bal)
              ELSE IF qty <= 0 THEN StepReturnsAfter("[SKIP: qty<=0]", calls, bal)
              ELSE /\ job' = [job EXCEPT !.pc = "step_order", !.calls = calls,
                                          !.free = bal]
                   /\ cur' = "job"
    /\ UNCHANGED <<file, now, settings, runner, hist, sched, cmd, libvars>>

\* _trade_step_symbol, lines 570-581: the order is sent or raises
TradeStepOrder ==
    /\ job.pc = "step_order" /\ cur = "job"
    /\ \E ok \in BOOLEAN :
          StepReturns(IF ok THEN "[ORDER SENT]" ELSE "[ORDER ERROR]",
                      Append(job.calls, "place_bracket_order"))
    /\ UNCHANGED <<file, now, settings, runner, hist, sched, cmd, libvars>>

\* _scheduled_job, line 594: m.send_text returns or raises
ScheduledJobSend ==
    /\ job.pc = "send" /\ Runs("job", job.pc)
    /\ \E raises \in BOOLEAN :
          IF raises THEN JobEnds("aborted")
          ELSE StepReturnsNone /\ UNCHANGED sched
    /\ UNCHANGED <<file, now, settings, runner, hist, cmd, libvars>>

\* a command arrives and its handler loads the state (lines 598, 603)
CmdLoad(kind) ==
    /\ cur = "idle" /\ cmd.pc = "idle"
    /\ cmd' = [pc |-> "loaded", kind |-> kind, snap |-> file, st |-> file]
    /\ cur' = Land("cmd", "loaded")
    /\ UNCHANGED <<file, now, settings, runner, hist, sched, job, libvars>>

\* cmd_run up to its load
CmdRun == CmdLoad("run")

\* cmd_stop up to its load
CmdStop == CmdLoad("stop")

\* cmd_run, lines 598-599, and cmd_stop, lines 603-604: set, save, (en|dis)able
CmdSave ==
    /\ cmd.pc = "loaded" /\ Runs("cmd", cmd.pc)
    /\ LET st == IF cmd.kind = "run"
                 THEN Put(Put(cmd.st, "armed", TRUE), "symbols", universe_symbols)
                 ELSE Put(cmd.st, "armed", FALSE)
       IN  /\ file' = st
           /\ cmd' = [cmd EXCEPT !.pc = "reply", !.st = EmptyDict, !.snap = EmptyDict]
    /\ sched' = IF cmd.kind = "run" THEN enable(sched) ELSE disable(sched)
    /\ cur' = Land("cmd", "reply")
    /\ UNCHANGED <<now, settings, runner, hist, job, libvars>>

\* cmd_run, line 600, and cmd_stop, line 605: the reply is sent
CmdReply ==
    /\ cmd.pc = "reply" /\ Runs("cmd", cmd.pc)
    /\ cmd' = CmdIdle
    /\ cur' = "idle"
    /\ UNCHANGED <<file, now, settings, runner, hist, sched, job, libvars>>

\* cmd_scheduler_on, lines 607-609, and cmd_scheduler_off, lines 611-613:
\* the scheduler switched, then the reply awaited; the state is not loaded
CmdScheduler(kind) ==
    /\ cur = "idle" /\ cmd.pc = "idle"
    /\ sched' = IF kind = "scheduler_on" THEN enable(sched) ELSE disable(sched)
    /\ cmd' = [CmdIdle EXCEPT !.pc = "reply", !.kind = kind]
    /\ cur' = Land("cmd", "reply")
    /\ UNCHANGED <<file, now, settings, runner, hist, job, libvars>>

CmdSchedulerOn == CmdScheduler("scheduler_on")

CmdSchedulerOff == CmdScheduler("scheduler_off")

---------------------------------------------------------------------------
(* bot/marketdata.py over core/exchange.py: one fetch of candles *)

\* attempts = 3 of MarketDataService.fetch_ohlcv and _fetch_ohlcv_safe
Attempts == 3

\* stop_after_attempt(3) on Exchange.fetch_ohlcv
StopAfterAttempt == 3

\* how one call of ccxt's fetch_ohlcv can end: candles, a RequestTimeout, a
\* NetworkError whose message says "timed out", an ExchangeError
CallOutcomes == {"ok", "RequestTimeout", "NetworkError_timed_out", "ExchangeError"}

\* the errors of the timeout class
TimeoutErrors == {"RequestTimeout", "NetworkError_timed_out"}

\* wait_exponential(multiplier=0.7, min=1, max=4) after attempt n, in tenths
\* of a second: max(min, min(multiplier * 2^(n-1), max))
wait_exponential(n) ==
    LET result == 7 * (2 ^ (n - 1))
    IN  Max(10, IF result < 40 THEN result ELSE 40)

\* sleep_base * (attempt + 1), in tenths of a second
sleep_for(attempt) == 7 * (attempt + 1)

\* the test of line 48 on str(exc).lower() where exc is tenacity's RetryError,
\* whose text names only the class of the last error
recognized(err) == err = "RequestTimeout"

\* attempt: the index of the service's loop; n: the attempt of the retry
\* decorator; first_err, last_err: the first and last error the exchange
\* raised; retried_after: the errors after which a call was repeated
FetchIdle == [pc |-> "idle", attempt |-> 0, n |-> 0, calls |-> 0, delays |-> <<>>,
              first_err |-> "", last_err |-> "", retried_after |-> {}]

\* MarketDataService.fetch_ohlcv is called
FetchStart ==
    /\ fetch.pc = "idle"
    /\ fetch' = [FetchIdle EXCEPT !.pc = "call", !.n = 1]
    /\ UNCHANGED <<file, now, settings, cur, runner, hist, appvars, rt, strat>>

\* Exchange.fetch_ohlcv under @retry: one call of the exchange; on an error
\* the decorator waits and calls again, or gives up with RetryError
ExchangeCall ==
    /\ fetch.pc = "call"
    /\ \E out \in CallOutcomes :
          LET called == [fetch EXCEPT !.calls = @ + 1]
              failed == [called EXCEPT !.last_err = out,
                                       !.first_err = IF @ = "" THEN out ELSE @]
          IN  IF out = "ok"
              THEN fetch' = [called EXCEPT !.pc = "returned"]
              ELSE IF fetch.n < StopAfterAttempt
              THEN fetch' = [failed EXCEPT !.n = @ + 1,
                                           !.delays = Append(@, wait_exponential(fetch.n)),
                                           !.retried_after = @ \cup {out}]
              ELSE fetch' = [failed EXCEPT !.pc = "except"]
    /\ UNCHANGED <<file, now, settings, cur, runner, hist, appvars, rt, strat>>

\* MarketDataService.fetch_ohlcv, lines 45-51: the except branch
FetchExcept ==
    /\ fetch.pc = "except"
    /\ IF recognized(fetch.last_err) /\ fetch.attempt < Attempts - 1
       THEN fetch' = [fetch EXCEPT !.pc = "call", !.attempt = @ + 1, !.n = 1,
                                   !.delays = Append(@, sleep_for(fetch.attempt)),
                                   !.retried_after = @ \cup {fetch.last_err}]
       ELSE fetch' = [fetch EXCEPT !.pc = "raised"]
    /\ UNCHANGED <<file, now, settings, cur, runner, hist, appvars, rt, strat>>

---------------------------------------------------------------------------
(* bot/state.py: one record through StateStore.load and StateStore.save *)

\* a dict with one entry
One(k, v) == [x \in {k} |-> v]

\* the i-th choice for a key of a record: absent (0) or one of two values
Choice(i, k, v1, v2) == IF i = 0 THEN EmptyDict ELSE IF i = 1 THEN One(k, v1) ELSE One(k, v2)

\* an event id as the runner stores it
SomeEventId == <<"BTC", 0, "long", 100000, "prev_low">>

\* a JSON object the state file can hold: each known field absent or present
\* with a value of its type, and extension fields, one of them named "extra"
RawRecord(a, c, s, e, n, x, y) ==
    Update(Choice(a, "armed", FALSE, TRUE),
    Update(Choice(c, "consec_losses", 0, 2),
    Update(Choice(s, "symbols", <<>>, <<"BTC">>),
    Update(Choice(e, "last_events", EmptyDict, One("BTC", SomeEventId)),
    Update(Choice(n, "last_notified_at", EmptyDict, One("BTC", MsPerHour)),
    Update(Choice(x, "extra", 7, 7),
           Choice(y, "note", "x", "x")))))))

\* a PersistentState a caller can construct: the extension dict empty, with
\* unknown keys, or with the key of a known field
StateValue(a, c, s, e, x) ==
    [armed |-> (a = 1),
     consec_losses |-> IF c = 1 THEN 2 ELSE 0,
     symbols |-> IF s = 1 THEN <<"BTC">> ELSE <<>>,
     last_events |-> IF e = 1 THEN One("BTC", SomeEventId) ELSE EmptyDict,
     last_notified_at |-> IF e = 1 THEN One("BTC", MsPerHour) ELSE EmptyDict,
     extra |-> IF x = 0 THEN EmptyDict
               ELSE IF x = 1 THEN One("note", "x")
               ELSE IF x = 2 THEN Update(One("extra", 7), One("note", "x"))
               ELSE One("armed", TRUE)]

\* StateStore.load, lines 46-52: the record is read into a PersistentState
StoreLoadRecord ==
    /\ rt.pc = "raw"
    /\ rt' = [rt EXCEPT !.pc = "loaded", !.state = StoreLoad(rt.raw)]
    /\ UNCHANGED <<file, now, settings, cur, runner, hist, appvars, fetch, strat>>

\* StateStore.save, lines 54-57: the PersistentState is written
StoreSaveRecord ==
    /\ rt.pc \in {"loaded", "state"}
    /\ rt' = [rt EXCEPT !.pc = "saved", !.written = StoreSave(rt.state)]
    /\ UNCHANGED <<file, now, settings, cur, runner, hist, appvars, fetch, strat>>

\* StateStore.load of what was written
StoreLoadAgain ==
    /\ rt.pc = "saved"
    /\ rt' = [rt EXCEPT !.pc = "reloaded", !.again = StoreLoad(rt.written)]
    /\ UNCHANGED <<file, now, settings, cur, runner, hist, appvars, fetch, strat>>

---------------------------------------------------------------------------
(* core/strategy/levels.py *)

\* the longest daily series and the largest lookback the model draws
MaxDays == 4
MaxLookback == 4

Min(a, b) == IF a < b THEN a ELSE b

\* row i (counted from 0, as iloc counts) of the daily frame: the open time
\* of the day in ms, its high and its low; every second day repeats the
\* extremes of the day two days before
DailyRow(i) ==
    [ts |-> i * HoursPerDay * MsPerHour,
     h  |-> 1000 + 10 * (i % 2),
     l  |-> 900 - 10 * (i % 2)]

\* a daily frame of n rows after reset_index(drop=True); iloc[i] is d1[i + 1]
DailyFrame(n) == [k \in 1..n |-> DailyRow(k - 1)]

iloc(df, i) == df[i + 1]

LevelCandidate(value, side, ts, label, age) ==
    [value |-> value, side |-> side, ts |-> ts, label |-> label, age |-> age]

\* the two candidates day i gives to day day_idx: its high, then its low
levels_of_row(d1, day_idx, i) ==
    LET row == iloc(d1, i)
        age == day_idx - i
        label_high == IF age = 1 THEN "prev_high" ELSE "high"
        label_low == IF age = 1 THEN "prev_low" ELSE "low"
    IN  << LevelCandidate(row.h, "short", row.ts,
                          <<label_high, DayOf(row.ts)>>, age),
           LevelCandidate(row.l, "long", row.ts,
                          <<label_low, DayOf(row.ts)>>, age) >>

\* start = max(0, day_idx - int(lookback)), reaching one day too far back
level_start_one_more(day_idx, lookback) == Max(0, day_idx - lookback - 1)

\* start = max(0, day_idx - int(lookback))
level_start(day_idx, lookback) == Max(0, day_idx - lookback)

\* for i in range(day_idx - 1, start - 1, -1): two appends per i
RECURSIVE levels_loop(_, _, _, _)
levels_loop(d1, day_idx, i, start) ==
    IF i < start
    THEN << >>
    ELSE levels_of_row(d1, day_idx, i) \o levels_loop(d1, day_idx, i - 1, start)

collect_level_candidates(d1, day_idx, lookback) ==
    IF day_idx <= 0 \/ day_idx >= Len(d1)
    THEN << >>
    ELSE levels_loop(d1, day_idx, day_idx - 1, level_start(day_idx, lookback))

\* a call of collect_level_candidates waiting to run
LevelsCall(n, day_idx, lookback) ==
    [pc |-> "levels", d1 |-> DailyFrame(n), day_idx |-> day_idx,
     lookback |-> lookback]

\* the call runs and returns its list
CollectLevels ==
    /\ strat.pc = "levels"
    /\ strat' = [pc |-> "levels_done", d1 |-> strat.d1,
                 day_idx |-> strat.day_idx, lookback |-> strat.lookback,
                 levels |-> collect_level_candidates(strat.d1, strat.day_idx,
                                                     strat.lookback)]
    /\ UNCHANGED <<file, now, settings, cur, runner, hist, appvars, fetch, rt>>

---------------------------------------------------------------------------
(* core/strategy/breakouts.py *)

\* the most hourly candles of the day the model draws
MaxCandles == 3

\* settings of the detector, in 1/10000 (PENETRATION_MIN_PCT = 0.001, ...);
\* the volume ratio in tenths; the window of the volume average
PenetrationMinBp == 10
PenetrationMaxBp == 70
CloseBackMaxBp == 30
VolumeMaxRatioTenths == 8
VolumeMaLength == 2
BpScale == 10000

\* hourly candle shapes around the daily levels 1000, 1010 (highs) and
\* 900, 890 (lows); ts is filled in by H1Frame
CandleShapes ==
    { [o |-> 995, h |-> 1005, l |-> 994, c |-> 999,  v |-> 4],    \* wick above 1000
      [o |-> 1004, h |-> 1015, l |-> 1003, c |-> 1008, v |-> 6],  \* wick above 1010
      [o |-> 903, h |-> 904, l |-> 896, c |-> 901,  v |-> 5],     \* wick below 900
      [o |-> 950, h |-> 955, l |-> 945, c |-> 951,  v |-> 10],    \* between the levels
      [o |-> 995, h |-> 1005, l |-> 994, c |-> 999,  v |-> 40] }  \* wick above 1000, loud

Candle(shape, ts) ==
    [ts |-> ts, o |-> shape.o, h |-> shape.h, l |-> shape.l, c |-> shape.c,
     v |-> shape.v]

\* the hourly frame: pre quiet candles in the last hours of the day before
\* start_ts, then one candle per hour of the day from start_ts on
H1Frame(pre, shapes, start_ts) ==
    [k \in 1..(pre + Len(shapes)) |->
        IF k <= pre
        THEN Candle([o |-> 950, h |-> 955, l |-> 945, c |-> 951, v |-> 10],
                    start_ts - (pre - k + 1) * MsPerHour)
        ELSE Candle(shapes[k - pre], start_ts + (k - pre - 1) * MsPerHour)]

\* no value: None for an index or a price, NaN for the volume average
None == -1

RECURSIVE SumV(_, _, _)
SumV(h1, from, to) ==
    IF from > to THEN 0 ELSE h1[from + 1].v + SumV(h1, from + 1, to)

\* series.rolling(length, min_periods=length).mean() at row idx, as the sum
\* of the window (the mean is the sum over length); NaN before a full window
volume_ma(h1, idx, length) ==
    LET len == Max(1, length)
    IN  IF idx + 1 < len THEN None ELSE SumV(h1, idx + 1 - len, idx)

\* num / den < bp / 10000 and num / den > bp / 10000 for den > 0; the code
\* takes the fraction as 0.0 when the level is 0
FracLt(num, den, bp) ==
    IF den = 0 THEN 0 < bp ELSE num * BpScale < bp * den
FracGt(num, den, bp) ==
    IF den = 0 THEN 0 > bp ELSE num * BpScale > bp * den

BreakoutInfo(level, row, idx, next_idx, next_open, ma, wick_price) ==
    [side |-> level.side, level |-> level.value, level_source |-> level.label,
     level_age |-> level.age, idx |-> idx, ts |-> row.ts,
     next_idx |-> next_idx, next_open |-> next_open,
     candle_open |-> row.o, candle_high |-> row.h, candle_low |-> row.l,
     candle_close |-> row.c, volume |-> row.v, volume_ma |-> ma,
     wick_price |-> wick_price]

\* the body of the loop of _find_breakout_for_level for the candle at
\* position pos of idx_list: TRUE when the candle is returned
is_breakout(h1, level, idx) ==
    LET row == h1[idx + 1]
        ma == volume_ma(h1, idx, VolumeMaLength)
        penetration == IF level.side = "long" THEN level.value - row.l
                                               ELSE row.h - level.value
        close_back == IF level.side = "long" THEN row.c - level.value
                                              ELSE level.value - row.c
        closed_inside == IF level.side = "long" THEN row.c >= level.value
                                                 ELSE row.c <= level.value
    IN  /\ ~(ma = None \/ ma <= 0)
        /\ ~(row.v * 10 * Max(1, VolumeMaLength) > VolumeMaxRatioTenths * ma)
        /\ ~(FracLt(penetration, level.value, PenetrationMinBp)
             \/ FracGt(penetration, level.value, PenetrationMaxBp))
        /\ closed_inside
        /\ ~(FracLt(close_back, level.value, 0)
             \/ FracGt(close_back, level.value, CloseBackMaxBp))

\* _find_breakout_for_level: the first candle of the day that qualifies, or
\* None; the result is a sequence of no or one BreakoutInfo
RECURSIVE find_breakout_for_level(_, _, _, _)
find_breakout_for_level(h1, idx_list, pos, level) ==
    IF pos > Len(idx_list)
    THEN << >>
    ELSE LET idx == idx_list[pos]
             row == h1[idx + 1]
             next_idx == IF pos + 1 <= Len(idx_list) THEN idx_list[pos + 1] ELSE None
             next_open == IF next_idx # None THEN h1[next_idx + 1].o ELSE None
         IN  IF is_breakout(h1, level, idx)
             THEN << BreakoutInfo(level, row, idx, next_idx, next_open,
                                  volume_ma(h1, idx, VolumeMaLength),
                                  IF level.side = "long" THEN row.l ELSE row.h) >>
             ELSE find_breakout_for_level(h1, idx_list, pos + 1, level)

\* key=lambda b: (b.ts, b.level_age), compared as python compares tuples
key_le(a, b) == a.ts < b.ts \/ (a.ts = b.ts /\ a.level_age <= b.level_age)

\* one event put into an already sorted list, behind every event whose key
\* is not larger (list.sort is stable)
RECURSIVE insert_sorted(_, _)
insert_sorted(sorted, b) ==
    IF sorted = << >> THEN << b >>
    ELSE IF key_le(sorted[1], b)
         THEN << sorted[1] >> \o insert_sorted(Tail(sorted), b)
         ELSE << b >> \o sorted

RECURSIVE sort_stable(_)
sort_stable(results) ==
    IF results = << >> THEN << >>
    ELSE insert_sorted(sort_stable(SubSeq(results, 1, Len(results) - 1)),
                       results[Len(results)])

\* the results left in the order of the levels
sort_skipped(results) == results

\* results.sort(key=lambda b: (b.ts, b.level_age))
sort_results(results) == sort_stable(results)

RECURSIVE MaxTs(_)
MaxTs(h1) ==
    IF Len(h1) = 1 THEN h1[1].ts
    ELSE Max(h1[Len(h1)].ts, MaxTs(SubSeq(h1, 1, Len(h1) - 1)))

\* the index labels of the window, latest candle first
RECURSIVE masked_latest_first(_, _, _, _)
masked_latest_first(h1, idx, start_ts, end_ts) ==
    IF idx >= Len(h1) THEN << >>
    ELSE masked_latest_first(h1, idx + 1, start_ts, end_ts) \o
         (IF h1[idx + 1].ts >= start_ts /\ h1[idx + 1].ts < end_ts
          THEN << idx >> ELSE << >>)

\* the index labels of h1_df[mask], in order
RECURSIVE masked(_, _, _, _)
masked(h1, idx, start_ts, end_ts) ==
    IF idx >= Len(h1) THEN << >>
    ELSE (IF h1[idx + 1].ts >= start_ts /\ h1[idx + 1].ts < end_ts
          THEN << idx >> ELSE << >>) \o masked(h1, idx + 1, start_ts, end_ts)

\* for level in levels: ... results.append(info)
RECURSIVE breakouts_loop(_, _, _, _, _)
breakouts_loop(h1, idx_list, levels, k, allowed_side) ==
    IF k > Len(levels) THEN << >>
    ELSE (IF allowed_side # "" /\ levels[k].side # allowed_side
          THEN << >>
          ELSE find_breakout_for_level(h1, idx_list, 1, levels[k]))
         \o breakouts_loop(h1, idx_list, levels, k + 1, allowed_side)

find_false_breakouts_for_day(h1, levels, start_ts, end_ts, allowed_side) ==
    IF h1 = << >> \/ levels = << >>
    THEN << >>
    ELSE LET end == IF end_ts = None THEN MaxTs(h1) + 1 ELSE end_ts
             idx_list == masked(h1, 0, start_ts, end)
         IN  IF idx_list = << >>
             THEN << >>
             ELSE sort_results(breakouts_loop(h1, idx_list, levels, 1, allowed_side))

\* sequences of at most n candle shapes
ShapeSeqs(n) == UNION { [1..k -> CandleShapes] : k \in 0..n }

\* a call of find_false_breakouts_for_day waiting to run: the levels are
\* those of the last day of a frame of n days, as analyze_symbol passes them
BreakoutsCall(n, lookback, pre, shapes, bounded, allowed_side) ==
    LET day_idx == n - 1
        d1 == DailyFrame(n)
        start_ts == iloc(d1, day_idx).ts
    IN  [pc |-> "breakouts",
         h1 |-> H1Frame(pre, shapes, start_ts),
         levels |-> collect_level_candidates(d1, day_idx, lookback),
         start_ts |-> start_ts,
         end_ts |-> IF bounded THEN start_ts + 2 * MsPerHour ELSE None,
         allowed_side |-> allowed_side]

\* the call runs and returns its list
FindBreakouts ==
    /\ strat.pc = "breakouts"
    /\ strat' = [pc |-> "breakouts_done", h1 |-> strat.h1,
                 levels |-> strat.levels, start_ts |-> strat.start_ts,
                 end_ts |-> strat.end_ts, allowed_side |-> strat.allowed_side,
                 breakouts |-> find_false_breakouts_for_day(
                                   strat.h1, strat.levels, strat.start_ts,
                                   strat.end_ts, strat.allowed_side)]
    /\ UNCHANGED <<file, now, settings, cur, runner, hist, appvars, fetch, rt>>

---------------------------------------------------------------------------
(* core/strategy/planner.py *)

\* prices of the planner are counted in 1/10000 of the quote currency, so
\* that the percentages of the settings stay whole numbers
PriceUnit == 10000

\* float('nan'), the one non-finite value the model carries
NaN == -999999999

\* settings of the planner: ENTRY_UNDERFILL_PCT = 0.001 and
\* STOP_LEVEL_PCT = 0.005 in 1/10000, RR = 3.0 in tenths, the fallback
\* tick 0.01 in price units
EntryUnderfillBp == 10
StopLevelBp == 50
StopWickTicksDefault == 3
RrTenths == 30
FallbackTick == 100

isfinite(x) == x # NaN

\* float arithmetic and comparison where an operand may be NaN
FAdd(a, b) == IF a = NaN \/ b = NaN THEN NaN ELSE a + b
FSub(a, b) == IF a = NaN \/ b = NaN THEN NaN ELSE a - b
FMul(k, a) == IF a = NaN THEN NaN ELSE k * a
FDiv(a, k) == IF a = NaN THEN NaN ELSE a \div k
FLe(a, b) == a # NaN /\ b # NaN /\ a <= b
FGe(a, b) == a # NaN /\ b # NaN /\ a >= b

\* level * pct for a pct given in 1/10000
PctOf(level, bp) == (level * bp) \div BpScale

\* what plan_trade reads from settings
PlannerSettings ==
    [ENTRY_MODE : {"next_open", "level_offset"},
     STOP_MODE : {"wick", "level"},
     STOP_WICK_TICKS : {0, StopWickTicksDefault},
     ENTRY_UNDERFILL_BP : {EntryUnderfillBp},
     STOP_LEVEL_BP : {StopLevelBp},
     RR_TENTHS : {RrTenths}]

PlannedTrade(side, entry, sl, tp) ==
    [side |-> side, entry |-> entry, sl |-> sl, tp |-> tp]

\* tick = float(tick_size or 0.0), then the two fallbacks
planner_tick(breakout, tick_size) ==
    LET tick == IF tick_size = None THEN 0 ELSE tick_size
    IN  IF FLe(tick, 0)
        THEN (IF PctOf(breakout.level, 1) <= 0 THEN FallbackTick
                                                ELSE PctOf(breakout.level, 1))
        ELSE tick

planner_entry(cfg, breakout) ==
    IF cfg.ENTRY_MODE = "level_offset"
    THEN (LET offset == Max(0, cfg.ENTRY_UNDERFILL_BP)
          IN  IF breakout.side = "long"
              THEN breakout.level + PctOf(breakout.level, offset)
              ELSE breakout.level - PctOf(breakout.level, offset))
    ELSE (IF breakout.next_open # None THEN breakout.next_open
                                       ELSE breakout.candle_close)

planner_sl(cfg, breakout, tick) ==
    LET ticks == Max(0, cfg.STOP_WICK_TICKS)
    IN  IF cfg.STOP_MODE = "level"
        THEN (LET pct == Max(0, cfg.STOP_LEVEL_BP)
              IN  IF breakout.side = "long"
                  THEN breakout.level - PctOf(breakout.level, pct)
                  ELSE breakout.level + PctOf(breakout.level, pct))
        ELSE (IF breakout.side = "long"
              THEN FSub(breakout.wick_price, FMul(ticks, tick))
              ELSE FAdd(breakout.wick_price, FMul(ticks, tick)))

\* the two repairs of an entry on the wrong side of the stop
planner_fix_entry(breakout, entry, sl, tick) ==
    IF breakout.side = "long" /\ FLe(entry, sl)
    THEN (LET e == Max(entry, breakout.level)
          IN  IF FLe(e, sl) THEN FAdd(sl, tick) ELSE e)
    ELSE IF breakout.side = "short" /\ FGe(entry, sl)
    THEN (LET e == Min(entry, breakout.level)
          IN  IF FGe(e, sl) THEN FSub(sl, tick) ELSE e)
    ELSE entry

\* the test on the risk left out: every plan is returned
risk_rejected_never(risk) == FALSE

\* if risk <= 0 or not math.isfinite(risk): return None
risk_rejected(risk) == FLe(risk, 0) \/ ~isfinite(risk)

\* plan_trade: no plan (None) or one PlannedTrade
plan_trade(cfg, breakout, tick_size) ==
    LET tick == planner_tick(breakout, tick_size)
        sl == planner_sl(cfg, breakout, tick)
        entry == planner_fix_entry(breakout, planner_entry(cfg, breakout), sl, tick)
        risk == IF breakout.side = "long" THEN FSub(entry, sl) ELSE FSub(sl, entry)
        rr == Max(1, cfg.RR_TENTHS)
        tp == IF breakout.side = "long"
              THEN FAdd(entry, FDiv(FMul(rr, risk), 10))
              ELSE FSub(entry, FDiv(FMul(rr, risk), 10))
    IN  IF risk_rejected(risk)
        THEN << >>
        ELSE << PlannedTrade(breakout.side, entry, sl, tp) >>

\* the level of the planner's inputs, 1002.00, and the distances from it
PlanLevel == 10020000
WickDepth == 30000
OpenOffsets == {1000, -50000, -60000}
TickSizes == {NaN, None, 0, 100, 1000}

\* a breakout handed to plan_trade: dir is 1 for long and -1 for short; the
\* wick lies depth beyond the level and the next candle opens off inside it
PlanBreakout(side, level, depth, off, has_next) ==
    LET dir == IF side = "long" THEN 1 ELSE -1
    IN  [side |-> side, level |-> level, level_source |-> <<"prev_high", 0>>,
         level_age |-> 1, idx |-> 0, ts |-> 0,
         next_idx |-> IF has_next THEN 1 ELSE None,
         next_open |-> IF has_next THEN level + dir * off ELSE None,
         candle_open |-> level + dir * 1000,
         candle_high |-> IF side = "long" THEN level + 2000 ELSE level + depth,
         candle_low |-> IF side = "long" THEN level - depth ELSE level - 2000,
         candle_close |-> level + dir * 1000,
         volume |-> 4, volume_ma |-> 10,
         wick_price |-> level - dir * depth]

PlanCall(breakout, tick_size) ==
    [pc |-> "plan", breakout |-> breakout, tick_size |-> tick_size]

\* the call runs and returns None or its plan
PlanTrade ==
    /\ strat.pc = "plan"
    /\ strat' = [pc |-> "plan_done", breakout |-> strat.breakout,
                 tick_size |-> strat.tick_size,
                 trade |-> plan_trade(settings, strat.breakout, strat.tick_size)]
    /\ UNCHANGED <<file, now, settings, cur, runner, hist, appvars, fetch, rt>>

---------------------------------------------------------------------------
(* bot/runner.py analyze_symbol: from the first breakout to the candidate *)

\* what the exchange knows of the symbol's market: the market is loaded and
\* has a price step (0.01 or 0.1), or looking it up raises
Markets ==
    { [ok |-> TRUE, tick |-> 100], [ok |-> TRUE, tick |-> 1000],
      [ok |-> FALSE, tick |-> 0] }

\* risk.tick_size: the price step of the market, 0.01 when it is not known
tick_size(market) == IF market.ok THEN market.tick ELSE FallbackTick

\* price_to_precision: the nearest multiple of the price step
price_to_precision(market, value) ==
    ((value + market.tick \div 2) \div market.tick) * market.tick

\* risk.round_price: the value itself when price_to_precision raises
round_price(market, value) ==
    IF market.ok THEN price_to_precision(market, value) ELSE value

AnalyzeCall(breakout, market) ==
    [pc |-> "analyze", breakout |-> breakout, market |-> market]

\* breakout = breakouts[0]; trade = plan_trade(...); if not trade: return None
AnalyzePlan ==
    /\ strat.pc = "analyze"
    /\ LET trade == plan_trade(settings, strat.breakout, tick_size(strat.market))
       IN  strat' = [pc |-> IF trade = << >> THEN "analyze_none" ELSE "planned",
                     breakout |-> strat.breakout, market |-> strat.market,
                     plan |-> trade, trade |-> trade]
    /\ UNCHANGED <<file, now, settings, cur, runner, hist, appvars, fetch, rt>>

\* the three round_price calls and the return of the SignalCandidate
AnalyzeRound ==
    /\ strat.pc = "planned"
    /\ LET t == strat.plan[1]
       IN  strat' = [strat EXCEPT
                        !.pc = "analyze_done",
                        !.trade = << PlannedTrade(t.side,
                                         round_price(strat.market, t.entry),
                                         round_price(strat.market, t.sl),
                                         round_price(strat.market, t.tp)) >>]
    /\ UNCHANGED <<file, now, settings, cur, runner, hist, appvars, fetch, rt>>

---------------------------------------------------------------------------
(* core/strategy/trend.py *)

\* the most closes of a frame the model draws, and the windows of the three
\* averages (D1_SMA, H4_FAST, H4_SLOW) shortened with it
MaxCloses == 3
D1Sma == 2
H4Fast == 2
H4Slow == 3

Closes == {1, 2, 3}

\* frames of 1..n closes
CloseSeqs(n) == UNION { [1..k -> Closes] : k \in 1..n }

RECURSIVE SumSeq(_, _, _)
SumSeq(s, from, to) ==
    IF from > to THEN 0 ELSE s[from] + SumSeq(s, from + 1, to)

\* sma(series, length).iloc[-1] as the pair <<sum of the window, length>>;
\* NaN before a full window, replaced by the last close as detect_trend does
last_sma(series, length) ==
    LET len == Max(1, length)
    IN  IF Len(series) < len
        THEN << series[Len(series)], 1 >>
        ELSE << SumSeq(series, Len(series) - len + 1, Len(series)), len >>

\* a / b >= c / d for the pairs <<a, b>> and <<c, d>>
MeanGe(x, y) == x[1] * y[2] >= y[1] * x[2]

Trend(d1, h4) == [d1 |-> d1, h4 |-> h4]

detect_trend(d1_close, h4_close) ==
    LET last_close == << d1_close[Len(d1_close)], 1 >>
        d1_trend == IF MeanGe(last_close, last_sma(d1_close, D1Sma))
                    THEN "up" ELSE "down"
        h4_trend == IF MeanGe(last_sma(h4_close, H4Fast), last_sma(h4_close, H4Slow))
                    THEN "up" ELSE "down"
    IN  Trend(d1_trend, h4_trend)

\* the branch for disagreeing biases following the h4 bias instead
side_of_h4(trend) == IF trend.h4 = "up" THEN "long" ELSE "short"

\* return "long" if trend.d1 == "up" else "short"
side_of_d1(trend) == IF trend.d1 = "up" THEN "long" ELSE "short"

\* strict is "" when the caller passes none: then settings.STRICT_TREND
\* decides; the result "" is None
determine_trade_side(trend, strict_arg, strict_setting) ==
    LET strict == IF strict_arg = "" THEN strict_setting # 0 ELSE strict_arg = "yes"
    IN  IF trend.d1 = "up" /\ trend.h4 = "up" THEN "long"
        ELSE IF trend.d1 = "down" /\ trend.h4 = "down" THEN "short"
        ELSE IF strict THEN ""
        ELSE side_of_d1(trend)

TrendCall(d1_close, h4_close, strict_arg, strict_setting) ==
    [pc |-> "trend", d1_close |-> d1_close, h4_close |-> h4_close,
     strict_arg |-> strict_arg, STRICT_TREND |-> strict_setting]

\* detect_trend runs
DetectTrend ==
    /\ strat.pc = "trend"
    /\ strat' = [pc |-> "side", d1_close |-> strat.d1_close,
                 h4_close |-> strat.h4_close, strict_arg |-> strat.strict_arg,
                 STRICT_TREND |-> strat.STRICT_TREND,
                 trend |-> detect_trend(strat.d1_close, strat.h4_close)]
    /\ UNCHANGED <<file, now, settings, cur, runner, hist, appvars, fetch, rt>>

\* determine_trade_side runs on the trend
DetermineSide ==
    /\ strat.pc = "side"
    /\ strat' = [pc |-> "side_done", d1_close |-> strat.d1_close,
                 h4_close |-> strat.h4_close, strict_arg |-> strat.strict_arg,
                 STRICT_TREND |-> strat.STRICT_TREND, trend |-> strat.trend,
                 side |-> determine_trade_side(strat.trend, strat.strict_arg,
                                               strat.STRICT_TREND)]
    /\ UNCHANGED <<file, now, settings, cur, runner, hist, appvars, fetch, rt>>

---------------------------------------------------------------------------
(* The two event ids of a pair of breakouts *)

\* hours of the breakout candles: two of one UTC day, one of the next
IdHours == {1, 2, HoursPerDay + 1}

\* levels in units of 0.00001: two that round(level, 4) and round(level, 2)
\* send to the same value, one that they keep apart
IdLevels == {1000000, 1000004, 1010000}

\* the fields of a breakout that the ids are made from, and its volume; idx
\* is the row of the candle in the hourly frame, one row per hour
IdBreakouts ==
    { [ts |-> h * MsPerHour, idx |-> h, side |-> side, level |-> level,
       level_source |-> label, volume |-> v] :
        h \in IdHours, side \in {"long", "short"}, level \in IdLevels,
        label \in {"prev_low", "prev_high"}, v \in {4, 6} }

\* what handlers._make_event_id reads of the same breakout: the candle row,
\* the side, and prev_low or prev_high (here in units of 0.001)
handlers_info(b) ==
    [ts |-> b.ts, side |-> b.side, level |-> b.level \div 100, idx |-> b.idx]

IdsCall(symbol_a, a, symbol_b, b) ==
    [pc |-> "ids", symbol_a |-> symbol_a, a |-> a, symbol_b |-> symbol_b, b |-> b]

\* reporting.make_event_id on both breakouts
MakeEventIds ==
    /\ strat.pc = "ids"
    /\ strat' = [pc |-> "ids_typed", symbol_a |-> strat.symbol_a, a |-> strat.a,
                 symbol_b |-> strat.symbol_b, b |-> strat.b,
                 id_a |-> make_event_id(strat.symbol_a, strat.a),
                 id_b |-> make_event_id(strat.symbol_b, strat.b)]
    /\ UNCHANGED <<file, now, settings, cur, runner, hist, appvars, fetch, rt>>

\* handlers._make_event_id on both breakouts
HandlersMakeEventIds ==
    /\ strat.pc = "ids_typed"
    /\ strat' = [pc |-> "ids_done", symbol_a |-> strat.symbol_a, a |-> strat.a,
                 symbol_b |-> strat.symbol_b, b |-> strat.b,
                 id_a |-> strat.id_a, id_b |-> strat.id_b,
                 hid_a |-> handlers_make_event_id(handlers_info(strat.a)),
                 hid_b |-> handlers_make_event_id(handlers_info(strat.b))]
    /\ UNCHANGED <<file, now, settings, cur, runner, hist, appvars, fetch, rt>>

---------------------------------------------------------------------------
(* core/backtest.py: the replay over the closed days *)

MaxReplayDays == 5
MaxForward == 2
H4PerDay == 6

ReplayCloses == {1, 2}

\* daily frames of 3..n days: the close of each day, the day k starting at
\* k * 24 hours
ReplayDailyCloses(n) == UNION { [1..k -> ReplayCloses] : k \in 3..n }

d1_ts(k) == k * HoursPerDay * MsPerHour

\* the 4-hour frame over the same days: one candle every 4 hours, closes
\* rising, falling, or falling with a jump on the first candle of each day
H4Close(pattern, j, days) ==
    IF pattern = "rising" THEN j + 1
    ELSE IF pattern = "falling" THEN H4PerDay * days - j
    ELSE IF j % H4PerDay = 0 THEN 10 * H4PerDay * days ELSE H4PerDay * days - j

H4Frame(pattern, days) ==
    [j1 \in 1..(H4PerDay * days) |->
        [ts |-> (j1 - 1) * (HoursPerDay \div H4PerDay) * MsPerHour,
         c |-> H4Close(pattern, j1 - 1, days)]]

\* h4[h4["ts"] <= next_ts]
h4_as_of(h4, next_ts) == SelectSeq(h4, LAMBDA r : r.ts <= next_ts)

ClosesOf(frame) == [k \in 1..Len(frame) |-> frame[k].c]

\* the hourly candles after the entry, as high and low against a plan with
\* entry 100, stop 1 away and target 3 away
ForwardCandles ==
    { [h |-> 100, l |-> 100], [h |-> 103, l |-> 100],
      [h |-> 100, l |-> 97], [h |-> 103, l |-> 97] }

ForwardFrames(n) == UNION { [1..k -> ForwardCandles] : k \in 0..n }

ReplaySig(side) ==
    IF side = "long" THEN [side |-> side, entry |-> 100, sl |-> 99, tp |-> 103]
                     ELSE [side |-> side, entry |-> 100, sl |-> 101, tp |-> 97]

\* _simulate_after_fill
RECURSIVE simulate_after_fill(_, _, _, _, _)
simulate_after_fill(h1_fw, side, entry, sl, tp) ==
    IF h1_fw = << >> THEN "NoFill"
    ELSE LET r == Head(h1_fw)
             hit_sl == IF side = "long" THEN r.l <= sl ELSE r.h >= sl
             hit_tp == IF side = "long" THEN r.h >= tp ELSE r.l <= tp
         IN  IF hit_sl /\ hit_tp
             THEN (IF Abs(entry - sl) <= Abs(tp - entry) THEN "SL" ELSE "TP")
             ELSE IF hit_sl THEN "SL"
             ELSE IF hit_tp THEN "TP"
             ELSE simulate_after_fill(Tail(h1_fw), side, entry, sl, tp)

\* the counters of backtest, pnl_r in tenths of R
ReplayCounters == [signals |-> 0, filled |-> 0, tp |-> 0, sl |-> 0, nofill |-> 0, pnl_r |-> 0]

\* an outcome that is neither TP nor SL left out of every counter
count_outcome_drops_nofill(acc, outcome) ==
    IF outcome = "TP"
    THEN [acc EXCEPT !.tp = @ + 1, !.pnl_r = @ + RrTenths]
    ELSE IF outcome = "SL"
    THEN [acc EXCEPT !.sl = @ + 1, !.pnl_r = @ - 10]
    ELSE acc

\* if outcome == "TP": ... elif outcome == "SL": ... else: nofill += 1
count_outcome(acc, outcome) ==
    IF outcome = "TP"
    THEN [acc EXCEPT !.tp = @ + 1, !.pnl_r = @ + RrTenths]
    ELSE IF outcome = "SL"
    THEN [acc EXCEPT !.sl = @ + 1, !.pnl_r = @ - 10]
    ELSE [acc EXCEPT !.nofill = @ + 1]

\* how the search of one day can end: no hourly candle in the day, no
\* fakeout, a fakeout pierced too deep, a setup whose entry is not touched,
\* a touched setup plan_trade gives up on, a planned trade
ScanResults == {"empty", "none", "deep", "not_touched", "no_plan", "planned"}

ReplayCall(d1_close, pattern, strict) ==
    [pc |-> "day", d1_close |-> d1_close, h4 |-> H4Frame(pattern, Len(d1_close)),
     STRICT_TREND |-> strict, i |-> 1, next_ts |-> 0, h4_used |-> << >>,
     trend |-> Trend("", ""), acc |-> ReplayCounters, outcome |-> ""]

\* for i in range(1, len(d1) - 1): the trend of day i, and the strict skip
ReplayTrend ==
    /\ strat.pc = "day"
    /\ strat.i < Len(strat.d1_close) - 1
    /\ LET next_ts == d1_ts(strat.i + 1)
           used == h4_as_of(strat.h4, next_ts)
           tr == detect_trend(SubSeq(strat.d1_close, 1, strat.i + 1), ClosesOf(used))
       IN  strat' = [strat EXCEPT
                        !.next_ts = next_ts, !.h4_used = used, !.trend = tr,
                        !.outcome = "",
                        !.pc = IF strat.STRICT_TREND # 0 /\ tr.d1 # tr.h4
                               THEN "day" ELSE "scan",
                        !.i = IF strat.STRICT_TREND # 0 /\ tr.d1 # tr.h4
                              THEN @ + 1 ELSE @]
    /\ UNCHANGED <<file, now, settings, cur, runner, hist, appvars, fetch, rt>>

\* the rest of the loop body for day i
ReplayScan ==
    /\ strat.pc = "scan"
    /\ \E found \in ScanResults, h1_fw \in ForwardFrames(MaxForward) :
          LET side == IF strat.trend.d1 = "up" THEN "long" ELSE "short"
              sig == ReplaySig(side)
              counted == [strat.acc EXCEPT !.signals = @ + 1]
              outcome == simulate_after_fill(h1_fw, sig.side, sig.entry, sig.sl, sig.tp)
          IN  /\ found # "planned" => h1_fw = << >>
              /\ strat' = [strat EXCEPT
                    !.pc = "day", !.i = @ + 1,
                    !.outcome = IF found = "planned" THEN outcome ELSE found,
                    !.acc = IF found \in {"empty", "none", "deep"} THEN @
                            ELSE IF found \in {"not_touched", "no_plan"}
                                 THEN [counted EXCEPT !.nofill = @ + 1]
                            ELSE count_outcome([counted EXCEPT !.filled = @ + 1], outcome)]
    /\ UNCHANGED <<file, now, settings, cur, runner, hist, appvars, fetch, rt>>

\* return BacktestResult(...)
ReplayReturn ==
    /\ strat.pc = "day"
    /\ strat.i >= Len(strat.d1_close) - 1
    /\ strat' = [strat EXCEPT !.pc = "replay_done"]
    /\ UNCHANGED <<file, now, settings, cur, runner, hist, appvars, fetch, rt>>

---------------------------------------------------------------------------
(* core/scheduler.py: the runner tasks of one Scheduler *)

MaxTasks == 3

\* tasks: every task asyncio.create_task has made, by what it is doing --
\* "created" (not yet run), "job" (awaiting the callback), "sleep" (awaiting
\* asyncio.sleep), "cancelling" (cancel() requested, CancelledError not yet
\* delivered), "done"; ref: which of them self._task is, 0 for None;
\* stopper: where a call of stop() is, awaited: the task it awaits;
\* stopped: stop() has been called
TasksOff == [enabled |-> FALSE, tasks |-> << >>, ref |-> 0,
             stopper |-> "idle", awaited |-> 0, stopped |-> FALSE]

\* what enable() sees of self._task
TaskView(s) ==
    IF s.ref = 0 THEN "none"
    ELSE IF s.tasks[s.ref] = "done" THEN "done" ELSE "running"

\* enable() called (by /run, /scheduler_on or start): atomic, it has no await
CallEnable ==
    /\ sched.ref \in DOMAIN sched.tasks \cup {0}
    /\ LET e == enable([enabled |-> sched.enabled, task |-> TaskView(sched)])
           creates == ~sched.enabled /\ TaskView(sched) \in {"none", "done"}
       IN  /\ creates => Len(sched.tasks) < MaxTasks
           /\ sched' = [sched EXCEPT
                           !.enabled = e.enabled,
                           !.tasks = IF creates THEN Append(@, "created") ELSE @,
                           !.ref = IF creates THEN Len(sched.tasks) + 1 ELSE @]
    /\ UNCHANGED <<file, now, settings, cur, runner, hist, job, cmd, libvars>>

\* disable() called (by /stop or /scheduler_off)
CallDisable ==
    /\ sched' = [sched EXCEPT !.enabled = FALSE]
    /\ UNCHANGED <<file, now, settings, cur, runner, hist, job, cmd, libvars>>

\* stop(), lines 42-46: the flag cleared, the task cancelled and awaited; a
\* task that is done is awaited without a suspension, and line 51 follows
StopBegin ==
    /\ sched.stopper = "idle"
    /\ sched' = IF sched.ref = 0
                THEN [sched EXCEPT !.enabled = FALSE, !.stopped = TRUE]
                ELSE IF sched.tasks[sched.ref] = "done"
                THEN [sched EXCEPT !.enabled = FALSE, !.stopped = TRUE, !.ref = 0]
                ELSE [sched EXCEPT !.enabled = FALSE, !.stopped = TRUE,
                                   !.tasks[sched.ref] = "cancelling",
                                   !.stopper = "await", !.awaited = sched.ref]
    /\ UNCHANGED <<file, now, settings, cur, runner, hist, job, cmd, libvars>>

\* stop(), lines 47-52: the awaited task has ended; self._task = None
StopEnd ==
    /\ sched.stopper = "await"
    /\ sched.tasks[sched.awaited] = "done"
    /\ sched' = [sched EXCEPT !.ref = 0, !.stopper = "idle", !.awaited = 0]
    /\ UNCHANGED <<file, now, settings, cur, runner, hist, job, cmd, libvars>>

\* _runner, lines 56-59: the task starts or its sleep is over
RunnerLoop(k) ==
    /\ k \in DOMAIN sched.tasks
    /\ sched.tasks[k] \in {"created", "sleep"}
    /\ sched' = [sched EXCEPT !.tasks[k] = IF sched.enabled THEN "job" ELSE "done"]
    /\ UNCHANGED <<file, now, settings, cur, runner, hist, job, cmd, libvars>>

\* _runner, lines 59-62: the callback has returned or raised; the sleep begins
RunnerSleeps(k) ==
    /\ k \in DOMAIN sched.tasks
    /\ sched.tasks[k] = "job"
    /\ sched' = [sched EXCEPT !.tasks[k] = "sleep"]
    /\ UNCHANGED <<file, now, settings, cur, runner, hist, job, cmd, libvars>>

\* _runner, lines 63-65: CancelledError delivered at the await
RunnerCancelled(k) ==
    /\ k \in DOMAIN sched.tasks
    /\ sched.tasks[k] = "cancelling"
    /\ sched' = [sched EXCEPT !.tasks[k] = "done"]
    /\ UNCHANGED <<file, now, settings, cur, runner, hist, job, cmd, libvars>>

---------------------------------------------------------------------------
(* The runner on a fresh state store *)

Init ==
    /\ file = EmptyDict
    /\ now = 1
    /\ settings \in SettingsSpace
    /\ cur = "idle"
    /\ runner = RunnerIdle
    /\ hist = [s \in Symbols |-> [prev |-> NoId, prev_committed |-> FALSE,
                                  committed |-> NoId, failed |-> NoId]]
    /\ sched = SchedOff
    /\ job = JobIdle
    /\ cmd = CmdIdle
    /\ fetch = FetchIdle
    /\ strat = NoCall
    /\ rt = NoRecord

Next ==
    \/ \E symbol \in Symbols : CheckSymbolNoCandidate(symbol)
    \/ \E symbol \in Symbols : CheckSymbolCandidate(symbol)
    \/ ProcessSignalGate
    \/ ProcessSignalSave
    \/ ProcessSignalDecide
    \/ ProcessSignalPositions
    \/ ProcessSignalBalance
    \/ ProcessSignalOrder
    \/ CheckSymbolReturn
    \/ Tick

Spec == Init /\ [][Next]_vars

---------------------------------------------------------------------------
(* The application: app.py main_async on the event loop *)

\* the state file a previous run can have left
StartFiles ==
    { EmptyDict,
      [consec_losses |-> 0, armed |-> TRUE, symbols |-> <<"BTC", "ETH">>,
       last_events |-> EmptyDict, last_notified_at |-> EmptyDict] }

\* register_handlers has saved the state, scheduler.start() has enabled it
InitApp ==
    /\ \E f \in StartFiles : file = register_handlers(f)
    /\ now = 1
    /\ settings \in SettingsSpace
    /\ cur = "idle"
    /\ runner = RunnerIdle
    /\ hist = [s \in Symbols |-> [prev |-> NoId, prev_committed |-> FALSE,
                                  committed |-> NoId, failed |-> NoId]]
    /\ sched = enable(SchedOff)
    /\ job = JobIdle
    /\ cmd = CmdIdle
    /\ fetch = FetchIdle
    /\ strat = NoCall
    /\ rt = NoRecord

NextApp ==
    \/ SchedulerRunner
    \/ ScheduledJobArmed
    \/ ScheduledJobDone
    \/ TradeStepFetch
    \/ TradeStepGate
    \/ TradeStepSave
    \/ TradeStepDecide
    \/ TradeStepBalance
    \/ TradeStepOrder
    \/ ScheduledJobSend
    \/ CmdRun
    \/ CmdStop
    \/ CmdSave
    \/ CmdReply
    \/ Tick

SpecApp == InitApp /\ [][NextApp]_vars

---------------------------------------------------------------------------
(* The application under the scheduling of the event loop: a timer that has
   run out wakes Scheduler._runner, and a coroutine that is ready runs on to
   its next await *)

JobSteps ==
    \/ ScheduledJobArmed
    \/ ScheduledJobDone
    \/ TradeStepFetch
    \/ TradeStepGate
    \/ TradeStepSave
    \/ TradeStepDecide
    \/ TradeStepBalance
    \/ TradeStepOrder
    \/ ScheduledJobSend

FairApp ==
    /\ SF_vars(SchedulerRunner)
    /\ SF_vars(JobSteps)
    /\ WF_vars(CmdSave)
    /\ WF_vars(CmdReply)

\* the application started with the default settings, dry or live
InitSched ==
    /\ \E f \in StartFiles : file = register_handlers(f)
    /\ now = 1
    /\ settings \in {DefaultSettings, [DefaultSettings EXCEPT !.DRY_RUN = 0]}
    /\ cur = "idle"
    /\ runner = RunnerIdle
    /\ hist = [s \in Symbols |-> [prev |-> NoId, prev_committed |-> FALSE,
                                  committed |-> NoId, failed |-> NoId]]
    /\ sched = enable(SchedOff)
    /\ job = JobIdle
    /\ cmd = CmdIdle
    /\ fetch = FetchIdle
    /\ strat = NoCall
    /\ rt = NoRecord

SpecSched == InitSched /\ [][NextApp]_vars /\ FairApp

---------------------------------------------------------------------------
(* One fetch of candles, alone *)

InitFetch ==
    /\ file = EmptyDict
    /\ now = 1
    /\ settings = DefaultSettings
    /\ cur = "idle"
    /\ runner = RunnerIdle
    /\ hist = [s \in Symbols |-> [prev |-> NoId, prev_committed |-> FALSE,
                                  committed |-> NoId, failed |-> NoId]]
    /\ sched = SchedOff
    /\ job = JobIdle
    /\ cmd = CmdIdle
    /\ fetch = FetchIdle
    /\ strat = NoCall
    /\ rt = NoRecord

NextFetch ==
    \/ FetchStart
    \/ ExchangeCall
    \/ FetchExcept

SpecFetch == InitFetch /\ [][NextFetch]_vars

---------------------------------------------------------------------------
(* One state record, alone *)

InitState ==
    /\ file = EmptyDict
    /\ now = 1
    /\ settings = DefaultSettings
    /\ cur = "idle"
    /\ runner = RunnerIdle
    /\ hist = [s \in Symbols |-> [prev |-> NoId, prev_committed |-> FALSE,
                                  committed |-> NoId, failed |-> NoId]]
    /\ sched = SchedOff
    /\ job = JobIdle
    /\ cmd = CmdIdle
    /\ fetch = FetchIdle
    /\ strat = NoCall
    /\ \/ \E a, c, s, e, n \in 0..2, x, y \in 0..1 :
             rt = [NoRecord EXCEPT !.pc = "raw", !.raw = RawRecord(a, c, s, e, n, x, y)]
       \/ \E a, c, s, e \in 0..1, x \in 0..3 :
             rt = [NoRecord EXCEPT !.pc = "state", !.state = StateValue(a, c, s, e, x)]

NextState ==
    \/ StoreLoadRecord
    \/ StoreSaveRecord
    \/ StoreLoadAgain

SpecState == InitState /\ [][NextState]_vars

---------------------------------------------------------------------------
(* One call of collect_level_candidates, alone *)

InitLevels ==
    /\ file = EmptyDict
    /\ now = 1
    /\ settings = DefaultSettings
    /\ cur = "idle"
    /\ runner = RunnerIdle
    /\ hist = [s \in Symbols |-> [prev |-> NoId, prev_committed |-> FALSE,
                                  committed |-> NoId, failed |-> NoId]]
    /\ sched = SchedOff
    /\ job = JobIdle
    /\ cmd = CmdIdle
    /\ fetch = FetchIdle
    /\ rt = NoRecord
    /\ \E n \in 0..MaxDays, day_idx \in 0..(MaxDays + 1), lookback \in 0..MaxLookback :
           strat = LevelsCall(n, day_idx, lookback)

NextLevels == CollectLevels

SpecLevels == InitLevels /\ [][NextLevels]_vars

---------------------------------------------------------------------------
(* One call of find_false_breakouts_for_day, alone *)

InitBreakouts ==
    /\ file = EmptyDict
    /\ now = 1
    /\ settings = DefaultSettings
    /\ cur = "idle"
    /\ runner = RunnerIdle
    /\ hist = [s \in Symbols |-> [prev |-> NoId, prev_committed |-> FALSE,
                                  committed |-> NoId, failed |-> NoId]]
    /\ sched = SchedOff
    /\ job = JobIdle
    /\ cmd = CmdIdle
    /\ fetch = FetchIdle
    /\ rt = NoRecord
    /\ \E n \in 2..MaxDays, lookback \in {0, 1, MaxLookback}, pre \in 0..VolumeMaLength,
          shapes \in ShapeSeqs(MaxCandles), bounded \in BOOLEAN,
          allowed_side \in {"", "long", "short"} :
           strat = BreakoutsCall(n, lookback, pre, shapes, bounded, allowed_side)

NextBreakouts == FindBreakouts

SpecBreakouts == InitBreakouts /\ [][NextBreakouts]_vars

---------------------------------------------------------------------------
(* One call of plan_trade, alone *)

InitPlan ==
    /\ file = EmptyDict
    /\ now = 1
    /\ settings \in PlannerSettings
    /\ cur = "idle"
    /\ runner = RunnerIdle
    /\ hist = [s \in Symbols |-> [prev |-> NoId, prev_committed |-> FALSE,
                                  committed |-> NoId, failed |-> NoId]]
    /\ sched = SchedOff
    /\ job = JobIdle
    /\ cmd = CmdIdle
    /\ fetch = FetchIdle
    /\ rt = NoRecord
    /\ \E side \in {"long", "short"}, level \in {PlanLevel},
          depth \in {WickDepth, -WickDepth}, off \in OpenOffsets,
          has_next \in BOOLEAN, tick \in TickSizes :
           strat = PlanCall(PlanBreakout(side, level, depth, off, has_next), tick)

NextPlan == PlanTrade

SpecPlan == InitPlan /\ [][NextPlan]_vars

---------------------------------------------------------------------------
(* The end of analyze_symbol, alone *)

InitAnalyze ==
    /\ file = EmptyDict
    /\ now = 1
    /\ settings \in PlannerSettings
    /\ cur = "idle"
    /\ runner = RunnerIdle
    /\ hist = [s \in Symbols |-> [prev |-> NoId, prev_committed |-> FALSE,
                                  committed |-> NoId, failed |-> NoId]]
    /\ sched = SchedOff
    /\ job = JobIdle
    /\ cmd = CmdIdle
    /\ fetch = FetchIdle
    /\ rt = NoRecord
    /\ \E side \in {"long", "short"}, off \in OpenOffsets, has_next \in BOOLEAN,
          market \in Markets :
           strat = AnalyzeCall(PlanBreakout(side, PlanLevel, WickDepth, off, has_next),
                               market)

NextAnalyze == AnalyzePlan \/ AnalyzeRound

SpecAnalyze == InitAnalyze /\ [][NextAnalyze]_vars

---------------------------------------------------------------------------
(* Trend and side, alone *)

InitTrend ==
    /\ file = EmptyDict
    /\ now = 1
    /\ settings = DefaultSettings
    /\ cur = "idle"
    /\ runner = RunnerIdle
    /\ hist = [s \in Symbols |-> [prev |-> NoId, prev_committed |-> FALSE,
                                  committed |-> NoId, failed |-> NoId]]
    /\ sched = SchedOff
    /\ job = JobIdle
    /\ cmd = CmdIdle
    /\ fetch = FetchIdle
    /\ rt = NoRecord
    /\ \E d1_close \in CloseSeqs(MaxCloses), h4_close \in CloseSeqs(MaxCloses),
          strict_arg \in {"", "yes", "no"}, strict_setting \in {0, 1} :
           strat = TrendCall(d1_close, h4_close, strict_arg, strict_setting)

NextTrend == DetectTrend \/ DetermineSide

SpecTrend == InitTrend /\ [][NextTrend]_vars

---------------------------------------------------------------------------
(* The event ids of two breakouts, alone *)

InitIds ==
    /\ file = EmptyDict
    /\ now = 1
    /\ settings = DefaultSettings
    /\ cur = "idle"
    /\ runner = RunnerIdle
    /\ hist = [s \in Symbols |-> [prev |-> NoId, prev_committed |-> FALSE,
                                  committed |-> NoId, failed |-> NoId]]
    /\ sched = SchedOff
    /\ job = JobIdle
    /\ cmd = CmdIdle
    /\ fetch = FetchIdle
    /\ rt = NoRecord
    /\ \E symbol_a \in Symbols, symbol_b \in Symbols,
          a \in IdBreakouts, b \in IdBreakouts :
            strat = IdsCall(symbol_a, a, symbol_b, b)

NextIds == MakeEventIds \/ HandlersMakeEventIds

SpecIds == InitIds /\ [][NextIds]_vars

---------------------------------------------------------------------------
(* One replay, alone *)

InitReplay ==
    /\ file = EmptyDict
    /\ now = 1
    /\ settings = DefaultSettings
    /\ cur = "idle"
    /\ runner = RunnerIdle
    /\ hist = [s \in Symbols |-> [prev |-> NoId, prev_committed |-> FALSE,
                                  committed |-> NoId, failed |-> NoId]]
    /\ sched = SchedOff
    /\ job = JobIdle
    /\ cmd = CmdIdle
    /\ fetch = FetchIdle
    /\ rt = NoRecord
    /\ \E d1_close \in ReplayDailyCloses(MaxReplayDays),
          pattern \in {"rising", "falling", "jump"}, strict \in {0, 1} :
            strat = ReplayCall(d1_close, pattern, strict)

NextReplay == ReplayTrend \/ ReplayScan \/ ReplayReturn

SpecReplay == InitReplay /\ [][NextReplay]_vars

---------------------------------------------------------------------------
(* The runner on a state store a previous run has written *)

\* state files with every field off its default and a key the dataclass
\* does not know
StoredFiles ==
    { [armed |-> TRUE, consec_losses |-> 2, symbols |-> <<"BTC", "ETH">>,
       last_events |-> EmptyDict, last_notified_at |-> EmptyDict,
       note |-> "kept"],
      [armed |-> TRUE, consec_losses |-> 2, symbols |-> <<"BTC", "ETH">>,
       last_events |-> Put(EmptyDict, "ETH", make_event_id("ETH", (CHOOSE c \in Candidates : c.breakout.side = "short").breakout)),
       last_notified_at |-> Put(EmptyDict, "ETH", MsPerHour),
       note |-> "kept"] }

InitStored ==
    /\ file \in StoredFiles
    /\ now = 1
    /\ settings \in {DefaultSettings, [DefaultSettings EXCEPT !.DRY_RUN = 0]}
    /\ cur = "idle"
    /\ runner = RunnerIdle
    /\ hist = [s \in Symbols |-> [prev |-> NoId, prev_committed |-> FALSE,
                                  committed |-> NoId, failed |-> NoId]]
    /\ sched = SchedOff
    /\ job = JobIdle
    /\ cmd = CmdIdle
    /\ fetch = FetchIdle
    /\ strat = NoCall
    /\ rt = NoRecord

SpecStored == InitStored /\ [][Next]_vars

---------------------------------------------------------------------------
(* One Scheduler and its callers, alone *)

InitTasks ==
    /\ file = EmptyDict
    /\ now = 1
    /\ settings = DefaultSettings
    /\ cur = "idle"
    /\ runner = RunnerIdle
    /\ hist = [s \in Symbols |-> [prev |-> NoId, prev_committed |-> FALSE,
                                  committed |-> NoId, failed |-> NoId]]
    /\ sched = TasksOff
    /\ job = JobIdle
    /\ cmd = CmdIdle
    /\ fetch = FetchIdle
    /\ strat = NoCall
    /\ rt = NoRecord

NextTasks ==
    \/ CallEnable
    \/ CallDisable
    \/ StopBegin
    \/ StopEnd
    \/ \E k \in 1..MaxTasks : RunnerLoop(k)
    \/ \E k \in 1..MaxTasks : RunnerSleeps(k)
    \/ \E k \in 1..MaxTasks : RunnerCancelled(k)

SpecTasks == InitTasks /\ [][NextTasks]_vars

---------------------------------------------------------------------------
(* The application with the scheduler commands *)

NextArmed == NextApp \/ CmdSchedulerOn \/ CmdSchedulerOff

SpecArmed == InitSched /\ [][NextArmed]_vars

---------------------------------------------------------------------------
(* Properties of process_signal *)

\* what the state file holds for a symbol
StoredEvent(symbol) == Get(Get(file, "last_events", EmptyDict), symbol, NoId)

StoredNotifiedAt(symbol) == Get(Get(file, "last_notified_at", EmptyDict), symbol, 0)

\* check_symbol has just returned
Returned == cur = "runner" /\ runner.pc = "returned"

\* ... from process_signal, which was given a candidate
ReturnedFromSignal == Returned /\ runner.result.why \in {"dup", "cooldown", "decided"}

\* hours between the stored notification of the symbol and now
HoursSinceNotified == now - (runner.last_at \div MsPerHour)

ExecutionCalls == {"open_position_count", "fetch_balance", "place_bracket_order"}

CallsMade == {runner.calls[i] : i \in 1..Len(runner.calls)}

\* C1: commit before act.  Whenever process_signal is about to make, or has
\* made, an execution-side call (open-position count, balance fetch, order
\* submission), the state file already holds the candidate's event id and
\* the notification time of this cycle for the candidate's symbol.
C1_CommitBeforeAct ==
    (cur = "runner" /\ (runner.pc \in {"positions", "balance", "order"} \/ runner.calls # <<>>))
        => /\ StoredEvent(runner.cand.symbol) = runner.event_id
           /\ StoredNotifiedAt(runner.cand.symbol) = now * MsPerHour

\* C1 witness: the order is about to be submitted after the position count
\* and the balance were queried.
C1_Witness ==
    /\ cur = "runner" /\ runner.pc = "order"
    /\ runner.calls = <<"open_position_count", "fetch_balance">>
    /\ StoredEvent(runner.cand.symbol) = runner.event_id

\* C2 as stated: with dedup enabled, a cycle that computes the event id the
\* previous cycle of the symbol computed returns no decision and makes no
\* exchange call.
C2_Original ==
    (ReturnedFromSignal /\ settings.DEDUP_BY_BREAKOUT # 0
        /\ hist[runner.cand.symbol].prev = runner.event_id)
        => (runner.result.decision = "none" /\ runner.calls = <<>>)

\* C2 amended: with dedup enabled, a cycle that computes the event id the
\* previous cycle of the symbol computed and committed (that cycle was not
\* suppressed by cooldown), or any id equal to the stored one, returns no
\* decision, makes no exchange call and writes nothing, whatever the cooldown.
C2_Dedup ==
    (ReturnedFromSignal /\ settings.DEDUP_BY_BREAKOUT # 0
        /\ \/ (hist[runner.cand.symbol].prev = runner.event_id
                /\ hist[runner.cand.symbol].prev_committed)
           \/ runner.last_id = runner.event_id)
        => /\ runner.result.decision = "none" /\ runner.result.why = "dup"
           /\ runner.calls = <<>>
           /\ StoredNotifiedAt(runner.cand.symbol) = runner.last_at

\* C2 witness: the second of two cycles with the same event id is suppressed
\* as a duplicate although the cooldown has passed.
C2_Witness ==
    /\ ReturnedFromSignal /\ settings.DEDUP_BY_BREAKOUT # 0
    /\ hist[runner.cand.symbol].prev = runner.event_id
    /\ hist[runner.cand.symbol].prev_committed
    /\ HoursSinceNotified >= settings.COOLDOWN_HOURS
    /\ runner.result.why = "dup"

\* a failed order is reported as a skip with reason "order" and stays committed
OrderFailureReported ==
    (Returned /\ runner.calls # <<>> /\ runner.calls[Len(runner.calls)] = "place_bracket_order"
        /\ runner.result.tag # "[ORDER SENT]")
        => /\ runner.result.decision = "decision"
           /\ runner.result.executed = FALSE
           /\ runner.result.skip_reason = <<"order">>
           /\ StoredEvent(runner.cand.symbol) = runner.event_id

\* C3 as stated: a failed order is a skip with reason "order", its event id
\* stays stored, and every later cycle that computes the same event id (dedup
\* enabled) is suppressed without another order submission.
C3_Original ==
    /\ OrderFailureReported
    /\ (ReturnedFromSignal /\ settings.DEDUP_BY_BREAKOUT # 0
            /\ hist[runner.cand.symbol].failed = runner.event_id)
          => (runner.result.decision = "none" /\ "place_bracket_order" \notin CallsMade)

\* C3 amended: ... and every later cycle that computes the same event id
\* while no other event id was committed for the symbol in between (dedup
\* enabled) is suppressed without another order submission.
C3_OrderFailureNotRetried ==
    /\ OrderFailureReported
    /\ (ReturnedFromSignal /\ settings.DEDUP_BY_BREAKOUT # 0
            /\ hist[runner.cand.symbol].failed = runner.event_id
            /\ hist[runner.cand.symbol].committed = runner.event_id)
          => (runner.result.decision = "none" /\ runner.result.why = "dup" /\ runner.calls = <<>>)

\* C3 witness: a cycle computes the event id of an order that failed, after
\* the cooldown, and is suppressed.
C3_Witness ==
    /\ ReturnedFromSignal /\ settings.DEDUP_BY_BREAKOUT # 0
    /\ hist[runner.cand.symbol].failed = runner.event_id
    /\ HoursSinceNotified >= settings.COOLDOWN_HOURS
    /\ runner.result.why = "dup"

\* C4: a candidate that is not dropped as a duplicate is suppressed by
\* cooldown exactly when a cooldown of C > 0 hours is configured, a
\* notification is recorded for the symbol and fewer than C hours have passed
\* since (so not at exactly C hours, and never with C <= 0 or no record).
C4_Cooldown ==
    (ReturnedFromSignal /\ runner.result.why # "dup")
        => ((runner.result.why = "cooldown")
              <=> /\ settings.COOLDOWN_HOURS > 0
                  /\ runner.last_at # 0
                  /\ HoursSinceNotified < settings.COOLDOWN_HOURS)

\* C4 witness: cooldown 8 h, notified 3 h ago, a new event id: suppressed.
C4_Witness ==
    /\ ReturnedFromSignal /\ settings.COOLDOWN_HOURS = 8
    /\ runner.last_id # runner.event_id /\ runner.last_id # NoId
    /\ HoursSinceNotified = 3
    /\ runner.result.why = "cooldown"

\* C5: in dry-run mode a candidate that is not suppressed yields a decision
\* flagged [DRY_RUN] with executed = false, and the cycle queries no open
\* positions, no balance, computes no size and submits no order.
C5_DryRun ==
    settings.DRY_RUN # 0
        => /\ runner.calls = <<>> /\ runner.qty = 0
           /\ runner.pc \notin {"positions", "balance", "order"}
           /\ (ReturnedFromSignal /\ runner.result.why = "decided")
                 => /\ runner.result.decision = "decision"
                    /\ runner.result.tag = "[DRY_RUN]"
                    /\ runner.result.executed = FALSE
                    /\ runner.result.skip_reason = <<>>

\* C5 witness: a dry-run decision was returned.
C5_Witness ==
    /\ ReturnedFromSignal /\ settings.DRY_RUN # 0
    /\ runner.result.tag = "[DRY_RUN]" /\ runner.calls = <<>>

---------------------------------------------------------------------------
(* Properties of the state file under the runner and the application *)

\* the symbols the state file tracks
TrackedSymbols == Get(file, "symbols", <<>>)

\* C6 as stated: the symbols that have a stored event id are tracked symbols.
C6_Original ==
    \A symbol \in DOMAIN Get(file, "last_events", EmptyDict) : InSeq(TrackedSymbols, symbol)

\* the job stands between a load of the state file and the save that follows
JobInUpdate == job.pc \in {"loaded", "step_loaded", "step_commit"}

\* the command handler stands between its load and its save
CmdInUpdate == cmd.pc = "loaded"

\* C7: between the load and the save of one activity (the scheduled job's
\* symbol list update, one symbol's decision, /run, /stop) no other activity
\* loads or saves the state: the file still is what the activity loaded, and
\* no other activity stands inside an update of its own.
C7_AtomicUpdate ==
    /\ JobInUpdate => (file = job.snap /\ ~CmdInUpdate)
    /\ CmdInUpdate => (file = cmd.snap /\ ~JobInUpdate)
    /\ job.pc = "step_commit" =>
          /\ job.st["last_events"][job.symbols[job.i]] = job.this_id
          /\ \A k \in DOMAIN file : k \notin {"last_events", "last_notified_at"} => job.st[k] = file[k]

\* C7 witness: /stop has loaded the state while the job is suspended in
\* send_text after committing an event; the event is in what /stop loaded.
C7_Witness ==
    /\ job.pc = "send" /\ cmd.pc = "loaded" /\ cmd.kind = "stop"
    /\ job.i = 1 /\ Len(job.symbols) = 2
    /\ Get(cmd.snap["last_events"], job.symbols[job.i], NoId) = handlers_make_event_id(job.cand)

\* C8 as stated: a cycle over a list of symbols that has ended, normally or
\* after a failure in one symbol's step, has processed every symbol of the list.
C8_Original ==
    job.outcome \in {"finished", "aborted"} => job.i > Len(job.symbols)

\* _trade_step_symbol: the event is saved before the balance is fetched or
\* the order is sent
TradeStepCommitBeforeAct ==
    (cur = "job" /\ (job.pc \in {"step_balance", "step_order"} \/ job.calls # <<>>))
        => /\ Get(file["last_events"], job.symbols[job.i], NoId) = job.this_id
           /\ Get(file["last_notified_at"], job.symbols[job.i], 0) = now * MsPerHour

\* _trade_step_symbol: a dry run fetches no balance and sends no order
TradeStepDryRun ==
    settings.DRY_RUN # 0
        => /\ job.calls = <<>> /\ job.pc \notin {"step_balance", "step_order"}
           /\ job.msg \in {"", "[DRY_RUN]"}

---------------------------------------------------------------------------
(* Properties of one fetch *)

\* C9 as stated: a fetch calls the exchange at most `attempts` times in all;
\* a call is repeated only after an error of the timeout class; the delays
\* before the repeated calls strictly increase; and once the exchange raised
\* an error outside the timeout class there is no further call.
C9_Original ==
    /\ fetch.calls <= Attempts
    /\ fetch.retried_after \subseteq TimeoutErrors
    /\ \A i \in 1..(Len(fetch.delays) - 1) : fetch.delays[i] < fetch.delays[i + 1]
    /\ (fetch.first_err \notin (TimeoutErrors \cup {""})) => fetch.calls = 1

---------------------------------------------------------------------------
(* Properties of the state record *)

\* what load followed by save wrote holds every field of the record read,
\* known or not, under its key with its value
WrittenBack ==
    rt.pc \in {"saved", "reloaded"}
        => \A k \in DOMAIN rt.raw : k \in DOMAIN rt.written /\ rt.written[k] = rt.raw[k]

---------------------------------------------------------------------------
(* Properties of the level candidates *)

LevelsReturned == strat.pc = "levels_done"

\* the ages of a list of candidates are in [1, lookback] and never decrease
AgesInOrder(levels, lookback) ==
    /\ \A k \in 1..Len(levels) : levels[k].age >= 1 /\ levels[k].age <= lookback
    /\ \A k \in 1..(Len(levels) - 1) : levels[k].age <= levels[k + 1].age

---------------------------------------------------------------------------
(* Properties of the breakout search *)

BreakoutsReturned == strat.pc = "breakouts_done"

\* event b was found on level lv
FromLevel(b, lv) ==
    /\ b.side = lv.side
    /\ b.level = lv.value
    /\ b.level_source = lv.label
    /\ b.level_age = lv.age

Positions(seq, Test(_)) == { k \in 1..Len(seq) : Test(seq[k]) }

\* C12: the returned list holds at most one event per input level, it is
\* sorted ascending by (candle timestamp, level age), and so its first event
\* has the smallest timestamp and, among the events of that timestamp, the
\* smallest level age.
C12_OnePerLevelSorted ==
    BreakoutsReturned =>
        LET bs == strat.breakouts
            lvs == strat.levels
        IN  /\ \A k \in 1..Len(lvs) :
                   Cardinality(Positions(bs, LAMBDA b : FromLevel(b, lvs[k])))
                       <= Cardinality(Positions(lvs, LAMBDA lv : lv = lvs[k]))
            /\ \A j \in 1..Len(bs) : \E k \in 1..Len(lvs) : FromLevel(bs[j], lvs[k])
            /\ \A j \in 1..(Len(bs) - 1) : key_le(bs[j], bs[j + 1])
            /\ \A j \in 1..Len(bs) :
                   /\ bs[1].ts <= bs[j].ts
                   /\ bs[j].ts = bs[1].ts => bs[1].level_age <= bs[j].level_age

\* three levels were hit, the age-2 level by an earlier candle than the two
\* levels of equal price and ages 1 and 3: the age-2 event comes first, then
\* age 1 before age 3
C12_Witness ==
    /\ BreakoutsReturned
    /\ Len(strat.breakouts) = 3
    /\ strat.breakouts[1].level_age = 2
    /\ strat.breakouts[2].level_age = 1
    /\ strat.breakouts[3].level_age = 3
    /\ strat.breakouts[1].ts < strat.breakouts[2].ts
    /\ strat.breakouts[2].ts = strat.breakouts[3].ts

---------------------------------------------------------------------------
(* Properties of the trade plan *)

PlanReturned == strat.pc = "plan_done" /\ strat.trade # << >>

\* C13: a plan that plan_trade returns has a finite, positive risk distance:
\* entry above the stop for a long, entry below the stop for a short, in
\* every entry mode, every stop mode and for every tick size.
C13_PositiveRisk ==
    PlanReturned =>
        LET t == strat.trade[1]
        IN  /\ isfinite(t.entry) /\ isfinite(t.sl)
            /\ t.side = "long" => t.entry > t.sl
            /\ t.side = "short" => t.entry < t.sl

\* a long whose next open lies below the percent stop was planned: the entry
\* was moved to the level, above the stop
C13_Witness ==
    /\ PlanReturned
    /\ settings.STOP_MODE = "level"
    /\ settings.ENTRY_MODE = "next_open"
    /\ strat.breakout.side = "long"
    /\ strat.breakout.next_open # None
    /\ strat.breakout.next_open < strat.trade[1].sl
    /\ strat.trade[1].entry = strat.breakout.level
    /\ strat.trade[1].entry > strat.trade[1].sl

---------------------------------------------------------------------------
(* Properties of the candidate of analyze_symbol *)

\* C14 as stated: the trade of every candidate analyze_symbol returns has a
\* risk distance |entry - stop| > 0, also after entry and stop were rounded
\* to the price step.
C14_Original ==
    strat.pc = "analyze_done" => strat.trade[1].entry # strat.trade[1].sl

\* before the rounding the distance is positive: the plan came from plan_trade
PlannedRiskPositive ==
    strat.pc \in {"planned", "analyze_done"} => strat.plan[1].entry # strat.plan[1].sl

---------------------------------------------------------------------------
(* Properties of the trade side *)

SideReturned == strat.pc = "side_done"

\* the strict value in force: the argument, or the setting when none is given
StrictInForce ==
    IF strat.strict_arg = "" THEN strat.STRICT_TREND = 1 ELSE strat.strict_arg = "yes"

\* C15: determine_trade_side returns long when both biases are up, short
\* when both are down; when they disagree it returns none if strict is set
\* and otherwise the side of the d1 bias (long for up, short for down).
C15_TradeSide ==
    SideReturned =>
        LET d1 == strat.trend.d1
            h4 == strat.trend.h4
        IN  /\ (d1 = "up" /\ h4 = "up") => strat.side = "long"
            /\ (d1 = "down" /\ h4 = "down") => strat.side = "short"
            /\ (d1 # h4 /\ StrictInForce) => strat.side = ""
            /\ (d1 = "up" /\ h4 = "down" /\ ~StrictInForce) => strat.side = "long"
            /\ (d1 = "down" /\ h4 = "up" /\ ~StrictInForce) => strat.side = "short"

\* the daily bias is down, the four-hour bias is up, strict is off: short
C15_Witness ==
    /\ SideReturned
    /\ strat.trend = Trend("down", "up")
    /\ ~StrictInForce
    /\ strat.side = "short"

---------------------------------------------------------------------------
(* Properties of the live branch of process_signal *)

\* process_signal has returned a decision in live mode
LiveDecision ==
    /\ ReturnedFromSignal
    /\ runner.result.why = "decided"
    /\ settings.DRY_RUN = 0

PositionsReason == <<"positions>=", settings.MAX_OPEN_POSITIONS>>

\* C16: in live mode with a cap N > 0, when the open-position count is >= N
\* the decision is a skip with reason "positions>=N" and neither the balance
\* query nor the order submission was invoked; with no cap (N = 0) no
\* decision is skipped for this reason (and the positions are not queried).
C16_PositionCap ==
    LiveDecision =>
        /\ (settings.MAX_OPEN_POSITIONS > 0 /\ runner.count >= settings.MAX_OPEN_POSITIONS)
              => /\ runner.result.executed = FALSE
                 /\ runner.result.skip_reason = PositionsReason
                 /\ runner.result.tag = "[SKIP: positions>=N]"
                 /\ CallsMade = {"open_position_count"}
        /\ settings.MAX_OPEN_POSITIONS = 0
              => /\ runner.result.skip_reason # PositionsReason
                 /\ runner.result.tag # "[SKIP: positions>=N]"
                 /\ "open_position_count" \notin CallsMade

\* a live decision was skipped at the cap
C16_Witness ==
    /\ LiveDecision
    /\ settings.MAX_OPEN_POSITIONS = MaxOpenPositionsDefault
    /\ runner.count = MaxOpenPositionsDefault
    /\ runner.result.skip_reason = PositionsReason
    /\ runner.calls = <<"open_position_count">>

\* the balance query returned and the size computed from it is <= 0
ZeroSize ==
    /\ "fetch_balance" \in CallsMade
    /\ runner.free >= 0
    /\ calc_qty_from_risk(runner.free, runner.cand.trade.entry, runner.cand.trade.sl,
                          settings.RISK_PCT) <= 0

\* C17 as stated: in live mode a computed size <= 0 gives a skip decision
\* whose reason is "qty<=0", and no order is submitted.
C17_Original ==
    (LiveDecision /\ ZeroSize)
        => /\ runner.result.executed = FALSE
           /\ runner.result.skip_reason = <<"qty<=0">>
           /\ "place_bracket_order" \notin CallsMade

\* C17: in live mode a computed size <= 0 (zero balance, zero risk percent
\* or zero entry-stop distance) gives a skip decision whose reason is "qty"
\* and whose message is tagged [SKIP: qty<=0], and no order is submitted.
C17_ZeroSize ==
    (LiveDecision /\ ZeroSize)
        => /\ runner.result.executed = FALSE
           /\ runner.result.skip_reason = <<"qty">>
           /\ runner.result.tag = "[SKIP: qty<=0]"
           /\ "place_bracket_order" \notin CallsMade

\* a funded account, a positive risk percent and a candidate whose entry and
\* stop coincide: skipped for its size
C17_Witness ==
    /\ LiveDecision /\ ZeroSize
    /\ runner.free > 0
    /\ settings.RISK_PCT > 0
    /\ runner.cand.trade.entry = runner.cand.trade.sl
    /\ runner.result.skip_reason = <<"qty">>

\* the same with a risk percent of zero, and with an empty account
ZeroRiskPctSkipped ==
    /\ LiveDecision /\ ZeroSize
    /\ runner.free > 0 /\ settings.RISK_PCT = 0
    /\ runner.cand.trade.entry # runner.cand.trade.sl
ZeroBalanceSkipped ==
    /\ LiveDecision /\ ZeroSize
    /\ runner.free = 0 /\ settings.RISK_PCT > 0
    /\ runner.cand.trade.entry # runner.cand.trade.sl

\* the runner: in live mode, when the balance query raises, the decision
\* is a skip with reason "balance", no order is submitted, and the event id
\* committed before the query is still the one the state file holds
RunnerBalanceFailure ==
    (LiveDecision /\ "fetch_balance" \in CallsMade /\ runner.free < 0)
        => /\ runner.result.executed = FALSE
           /\ runner.result.skip_reason = <<"balance">>
           /\ "place_bracket_order" \notin CallsMade
           /\ runner.event_id # NoId
           /\ StoredEvent(runner.cand.symbol) = runner.event_id

\* the balance query raised after the event was committed
RunnerBalanceFailureSeen ==
    /\ LiveDecision
    /\ runner.free < 0
    /\ runner.calls[Len(runner.calls)] = "fetch_balance"
    /\ runner.result.tag = "[BALANCE ERROR]"
    /\ StoredEvent(runner.cand.symbol) = runner.event_id

\* C18 as stated, for _trade_step_symbol of handlers.py: in live mode, when
\* the balance query raises, the step reports a skip for the balance and no
\* order is submitted (the event id was committed before the query).
C18_Original ==
    (job.pc = "send" /\ settings.DRY_RUN = 0 /\ job.free < 0)
        => /\ job.msg = "[BALANCE ERROR]"
           /\ \A k \in 1..Len(job.calls) : job.calls[k] # "place_bracket_order"

\* what the step does report then: an order error, without an order
TradeStepBalanceFailure ==
    (job.pc = "send" /\ settings.DRY_RUN = 0 /\ job.free < 0)
        => /\ job.msg = "[ORDER ERROR]"
           /\ job.calls = <<"fetch_balance">>
           /\ job.this_id # NoId

---------------------------------------------------------------------------
(* Properties of the scheduler *)

\* the job raised in this tick: _runner has caught and logged it and sleeps
JobRaised == job.outcome = "aborted" /\ sched.task = "waiting"

\* _runner is inside callback()
JobInFlight == sched.task = "running"

\* C19: if the scheduled job raises in one tick, the loop logs it and, as
\* long as the scheduler stays enabled, invokes the job again on the next
\* tick; an exception in the job never ends the loop: the loop ends only
\* when it wakes up disabled.
C19_Resilience ==
    /\ [](JobRaised => <>(JobInFlight \/ ~sched.enabled))
    /\ [][(JobInFlight /\ ~JobInFlight') => sched'.task = "waiting"]_vars
    /\ [][(sched.task # "done" /\ sched'.task = "done")
              => (sched.task = "waiting" /\ ~sched.enabled)]_vars

\* the job raised while the scheduler is enabled, and the loop sleeps
C19_Witness ==
    /\ JobRaised
    /\ sched.enabled
    /\ job.i <= Len(job.symbols)

\* C20: after disable() or /stop cleared the flag, a job in flight runs to
\* completion: it ends, and it ends without an exception only when every
\* symbol of its list was processed; and no new invocation of the job
\* begins while the flag is cleared.
C20_CooperativeStop ==
    /\ []((JobInFlight /\ ~sched.enabled) => <>(~JobInFlight))
    /\ [][(JobInFlight /\ ~JobInFlight')
              => /\ job'.outcome \in {"finished", "aborted", "not_armed"}
                 /\ job'.outcome = "finished" => job'.i > Len(job'.symbols)]_vars
    /\ [][(~JobInFlight /\ JobInFlight') => sched.enabled]_vars

\* /stop came while the job was in flight: the flag is cleared, the state is
\* disarmed, and the job is at work on its second symbol
C20_Witness ==
    /\ JobInFlight
    /\ ~sched.enabled
    /\ Get(file, "armed", TRUE) = FALSE
    /\ job.i = 2
    /\ job.pc = "step_balance"

---------------------------------------------------------------------------
(* Properties of the scan of one level *)

\* positions (counted from 1) of the candles of h1 inside [start_ts, end_ts)
WindowPositions ==
    { k \in 1..Len(strat.h1) :
        /\ strat.h1[k].ts >= strat.start_ts
        /\ strat.end_ts = None \/ strat.h1[k].ts < strat.end_ts }

\* the volumes of the VolumeMaLength candles ending at position k
WindowVolumes(k) ==
    [j \in 1..VolumeMaLength |-> strat.h1[k - VolumeMaLength + j].v]

RECURSIVE Total(_)
Total(s) == IF s = << >> THEN 0 ELSE Head(s) + Total(Tail(s))

\* the candle at position k passes every filter for level lv; fractions of
\* the level are compared after multiplying out
PassesFilters(k, lv) ==
    LET c == strat.h1[k]
        penetration == IF lv.side = "long" THEN lv.value - c.l ELSE c.h - lv.value
        closeBack == IF lv.side = "long" THEN c.c - lv.value ELSE lv.value - c.c
    IN  /\ k >= VolumeMaLength
        /\ Total(WindowVolumes(k)) > 0
        /\ c.v * 10 * VolumeMaLength <= VolumeMaxRatioTenths * Total(WindowVolumes(k))
        /\ penetration * BpScale >= PenetrationMinBp * lv.value
        /\ penetration * BpScale <= PenetrationMaxBp * lv.value
        /\ closeBack >= 0
        /\ closeBack * BpScale <= CloseBackMaxBp * lv.value

PassingPositions(lv) == { k \in WindowPositions : PassesFilters(k, lv) }

First(S) == CHOOSE k \in S : \A j \in S : k <= j

EventsOf(lv) == Positions(strat.breakouts, LAMBDA b : FromLevel(b, lv))

\* C21: for each level (of the allowed side) the scanner returns the first
\* candle inside [start_ts, end_ts) that passes every filter -- volume
\* average defined and > 0, volume <= ratio x average, penetration between
\* its bounds, close on the safe side, close-back between 0 and its bound --
\* and returns no event for a level that no candle of the window passes.
C21_FirstPassingCandle ==
    BreakoutsReturned =>
        \A n \in 1..Len(strat.levels) :
            LET lv == strat.levels[n]
                allowed == strat.allowed_side = "" \/ lv.side = strat.allowed_side
            IN  IF allowed /\ PassingPositions(lv) # {}
                THEN /\ Cardinality(EventsOf(lv)) = 1
                     /\ \A j \in EventsOf(lv) :
                            /\ strat.breakouts[j].idx = First(PassingPositions(lv)) - 1
                            /\ strat.breakouts[j].ts = strat.h1[First(PassingPositions(lv))].ts
                ELSE EventsOf(lv) = {}

\* the first candle of the window pierces 1000 on too much volume, the next
\* one pierces it quietly: the event of the level is the second candle
C21_Witness ==
    /\ BreakoutsReturned
    /\ \E k \in WindowPositions :
          /\ k - 1 \in WindowPositions
          /\ strat.h1[k - 1].h = 1005 /\ strat.h1[k - 1].v = 40
          /\ strat.h1[k].h = 1005 /\ strat.h1[k].v = 4
          /\ \E j \in 1..Len(strat.breakouts) :
                /\ strat.breakouts[j].level = 1000
                /\ strat.breakouts[j].idx = k - 1

---------------------------------------------------------------------------
(* Properties of the event id *)

\* the two breakouts agree on symbol, UTC day, side, rounded level and label,
\* with the level rounded as make_event_id rounds it
SameFive ==
    /\ strat.symbol_a = strat.symbol_b
    /\ DayOf(strat.a.ts) = DayOf(strat.b.ts)
    /\ strat.a.side = strat.b.side
    /\ Round4(strat.a.level) = Round4(strat.b.level)
    /\ strat.a.level_source = strat.b.level_source

\* ... with the level rounded as handlers._make_event_id rounds it
HandlersSameFive ==
    /\ strat.symbol_a = strat.symbol_b
    /\ DayOf(strat.a.ts) = DayOf(strat.b.ts)
    /\ strat.a.side = strat.b.side
    /\ Round2(handlers_info(strat.a).level) = Round2(handlers_info(strat.b).level)
    /\ strat.a.level_source = strat.b.level_source

\* a pair the handlers can compare: one symbol, the label that goes with the side
LabelOfSide(b) == b.level_source = (IF b.side = "long" THEN "prev_low" ELSE "prev_high")

HandlersInput ==
    strat.symbol_a = strat.symbol_b /\ LabelOfSide(strat.a) /\ LabelOfSide(strat.b)

\* reporting.make_event_id alone: equal ids exactly for breakouts that agree
\* on the five components
TypedIdOfFive ==
    strat.pc \in {"ids_typed", "ids_done"} => (SameFive <=> strat.id_a = strat.id_b)

\* C22: the event id is a function of exactly (symbol, UTC day of the
\* breakout candle, side, rounded level, level label): two breakouts that
\* agree on the five get the same id whatever the candle time within the
\* day, penetration or volume, and two that differ in one get different
\* ids -- for make_event_id and for handlers._make_event_id. The handlers
\* keep one stored id per symbol and take prev_low for a long and prev_high
\* for a short breakout, so their ids are compared for one symbol and for
\* the label of the side.
C22_Original ==
    strat.pc = "ids_done" =>
        /\ SameFive <=> strat.id_a = strat.id_b
        /\ HandlersInput => (HandlersSameFive <=> strat.hid_a = strat.hid_b)

---------------------------------------------------------------------------
(* Properties of the replay *)

ReplayPcs == {"day", "scan", "replay_done"}

\* C23: the replay has no look-ahead: the trend and the decision for day i
\* use no 4-hour candle whose timestamp is at or after the start of day i+1.
C23_Original ==
    strat.pc \in ReplayPcs =>
        \A k \in 1..Len(strat.h4_used) : strat.h4_used[k].ts < strat.next_ts

\* the candle that opens day i+1 decides the 4-hour bias of day i
LookAheadDecides ==
    /\ strat.pc = "scan"
    /\ strat.trend.h4 #
         detect_trend(SubSeq(strat.d1_close, 1, strat.i + 1),
                      ClosesOf(SelectSeq(strat.h4, LAMBDA r : r.ts < strat.next_ts))).h4

\* C24: after a replay every counted signal is classified exactly once:
\* signals = TP + SL + no-fill, fills <= signals, and the total PnL is
\* RR x TP - SL (in tenths of R).
C24_ReplayAccounting ==
    strat.pc \in ReplayPcs =>
        /\ strat.acc.signals = strat.acc.tp + strat.acc.sl + strat.acc.nofill
        /\ strat.acc.filled <= strat.acc.signals
        /\ strat.acc.pnl_r = RrTenths * strat.acc.tp - 10 * strat.acc.sl

\* a finished replay with a target hit, a stop hit and two kinds of no-fill:
\* an entry never touched and a fill that reached neither stop nor target
C24_Witness ==
    /\ strat.pc = "replay_done"
    /\ strat.acc.tp >= 1 /\ strat.acc.sl >= 1
    /\ strat.acc.nofill >= 1
    /\ strat.acc.filled > strat.acc.tp + strat.acc.sl

---------------------------------------------------------------------------
(* The frame of a decision *)

\* the two states agree everywhere but on the event and the notification
\* time stored for symbol
SameButFor(old, new, symbol) ==
    /\ new.armed = old.armed
    /\ new.consec_losses = old.consec_losses
    /\ new.symbols = old.symbols
    /\ new.extra = old.extra
    /\ \A s \in Symbols \ {symbol} :
          /\ Get(new.last_events, s, NoId) = Get(old.last_events, s, NoId)
          /\ Get(new.last_notified_at, s, 0) = Get(old.last_notified_at, s, 0)

\* C25: process_signal changes nothing in the persistent state except
\* last_events[symbol] and last_notified_at[symbol] of the candidate's
\* symbol; a suppressed candidate (duplicate or cooldown) saves nothing and
\* leaves the state as it was loaded.
C25_DecisionFrame ==
    /\ [][file' # file =>
            /\ runner.pc = "commit"
            /\ SameButFor(StoreLoad(file), StoreLoad(file'), runner.cand.symbol)]_vars
    /\ [](ReturnedFromSignal /\ runner.result.why \in {"dup", "cooldown"} =>
            /\ runner.st = StoreLoad(file)
            /\ Get(StoreLoad(file).last_events, runner.cand.symbol, NoId) = runner.last_id
            /\ Get(StoreLoad(file).last_notified_at, runner.cand.symbol, 0) = runner.last_at)

\* a decision for BTC has been saved into a state that holds an armed flag,
\* a loss count, a symbol list, an unknown key and an event of ETH
C25_Witness ==
    /\ ReturnedFromSignal /\ runner.result.why = "decided"
    /\ runner.cand.symbol = "BTC"
    /\ StoredEvent("BTC") = runner.event_id /\ runner.last_id # runner.event_id
    /\ StoredEvent("ETH") # NoId
    /\ StoreLoad(file).armed /\ StoreLoad(file).consec_losses = 2
    /\ StoreLoad(file).extra # EmptyDict

---------------------------------------------------------------------------
(* Orders over a sequence of cycles *)

\* process_signal is at the call of place_bracket_order
AtOrder == cur = "runner" /\ runner.pc = "order"

\* C26: with dedup enabled, over any sequence of cycles for a symbol
\* (a different event id committed in between or not), place_bracket_order
\* is never invoked twice for the same event id.  Of the earlier invocations
\* the history keeps the last one that raised; the claim rules out an
\* invocation for that id.
C26_Original ==
    (AtOrder /\ settings.DEDUP_BY_BREAKOUT # 0)
        => hist[runner.cand.symbol].failed # runner.event_id

\* C26 amended: with dedup enabled, place_bracket_order is never invoked for
\* the event id that was the last one committed for the symbol, so never
\* twice for one event id without a different event id committed in between.
C26_NoRepeatWhileLast ==
    (AtOrder /\ settings.DEDUP_BY_BREAKOUT # 0)
        => /\ hist[runner.cand.symbol].committed # runner.event_id
           /\ runner.last_id # runner.event_id

\* an order is about to go out for a symbol that has had another event
\* committed, and an event computed, before
C26_Witness ==
    /\ AtOrder /\ settings.DEDUP_BY_BREAKOUT # 0
    /\ hist[runner.cand.symbol].committed # NoId
    /\ hist[runner.cand.symbol].prev # NoId
    /\ StoredEvent(runner.cand.symbol) = runner.event_id

---------------------------------------------------------------------------
(* A candidate suppressed by the cooldown *)

\* the cooldown window of the symbol is over, or there is none
CooldownOver ==
    \/ settings.COOLDOWN_HOURS <= 0
    \/ runner.last_at = 0
    \/ HoursSinceNotified >= settings.COOLDOWN_HOURS

\* the candidate's id is not the stored one, or dedup is off
NotDuplicate == settings.DEDUP_BY_BREAKOUT = 0 \/ runner.last_id # runner.event_id

\* the last cycle of the symbol that had a candidate computed this id and
\* committed nothing
SuppressedBefore ==
    /\ hist[runner.cand.symbol].prev = runner.event_id
    /\ ~hist[runner.cand.symbol].prev_committed

\* C27: a candidate suppressed by cooldown is not lost: the suppression
\* records neither its event id nor a notification time, and when the same
\* non-duplicate candidate comes again in a cycle after the cooldown has
\* elapsed, nothing committed for the symbol in between, that cycle yields a
\* decision.
C27_NotLost ==
    /\ (ReturnedFromSignal /\ runner.result.why = "cooldown")
          => /\ StoredEvent(runner.cand.symbol) = runner.last_id
             /\ StoredNotifiedAt(runner.cand.symbol) = runner.last_at
             /\ runner.st = StoreLoad(file)
    /\ (ReturnedFromSignal /\ SuppressedBefore /\ NotDuplicate /\ CooldownOver)
          => /\ runner.result.why = "decided"
             /\ runner.result.decision = "decision"
             /\ StoredEvent(runner.cand.symbol) = runner.event_id

\* 8 hours of cooldown: a new event id came inside the window and was
\* suppressed, comes again once the window is over, and is decided
C27_Witness ==
    /\ ReturnedFromSignal /\ SuppressedBefore
    /\ settings.COOLDOWN_HOURS = CooldownHoursDefault
    /\ runner.last_id # NoId /\ runner.last_id # runner.event_id
    /\ HoursSinceNotified >= settings.COOLDOWN_HOURS
    /\ runner.result.why = "decided"

---------------------------------------------------------------------------
(* The position query failing *)

\* C30: a failed position query fails open: when fetch_positions raises on
\* both attempts open_position_count returns 0, so with a cap N > 0 the cap
\* check passes and process_signal goes on to the balance, the size and the
\* order instead of skipping.
C30_FailsOpen ==
    (cur = "runner" /\ runner.raised)
        => /\ settings.MAX_OPEN_POSITIONS > 0
           /\ runner.count = 0
           /\ runner.pc \in {"balance", "order", "returned"}
           /\ runner.pc = "returned"
                 => /\ "fetch_balance" \in CallsMade
                    /\ runner.result.skip_reason \in {<<>>, <<"balance">>, <<"qty">>, <<"order">>}
                    /\ runner.result.tag # "[SKIP: positions>=N]"

\* the query raised twice under a cap of three and the order went out
C30_Witness ==
    /\ ReturnedFromSignal /\ runner.raised
    /\ settings.MAX_OPEN_POSITIONS = MaxOpenPositionsDefault
    /\ runner.calls = <<"open_position_count", "fetch_balance", "place_bracket_order">>
    /\ runner.result.executed

---------------------------------------------------------------------------
(* Properties of the runner tasks *)

\* the runner tasks that have not ended
AliveTasks == { k \in DOMAIN sched.tasks : sched.tasks[k] # "done" }

\* C28: under any interleaving of enable(), disable(), start() and stop()
\* with the runner loop, whenever is_enabled() is true exactly one runner
\* task is alive: never two, and never none because the old task was
\* finishing or being cancelled.
C28_Original == sched.enabled => Cardinality(AliveTasks) = 1

\* the same as long as stop() has not been called
OneRunnerBeforeStop ==
    (sched.enabled /\ ~sched.stopped) => Cardinality(AliveTasks) = 1

\* enabled, no stop() in progress, and no runner task left
EnabledWithoutRunner ==
    sched.enabled /\ sched.stopper = "idle" /\ AliveTasks = {}

\* enabled, and two runner tasks in their loops
TwoRunners ==
    /\ sched.enabled
    /\ Cardinality({ k \in AliveTasks : sched.tasks[k] \in {"job", "sleep"} }) >= 2

---------------------------------------------------------------------------
(* The armed gate *)

\* the armed flag as the state file holds it
ArmedIn(f) == "armed" \in DOMAIN f /\ f["armed"] = TRUE

\* the job is past its gate: in the loop over the symbols, inside a trade
\* step, or sending a message
PastGate == job.pc \notin {"idle", "loaded"}

\* C29: a scheduled cycle processes no symbol, makes no exchange call and
\* sends no message unless the persisted armed flag is true at the start of
\* the cycle; /scheduler_on alone never arms: only /run sets the flag and
\* only /stop clears it.
C29_ArmedGate ==
    /\ [](job.pc = "loaded" => job.st = file)
    /\ [](~PastGate => job.calls = << >> /\ job.msg = "")
    /\ [][(~PastGate /\ PastGate')
             => /\ job.pc = "loaded" /\ ArmedIn(job.st)
                /\ job'.pc = "loop"]_vars
    /\ [][(job.pc = "loaded" /\ ~ArmedIn(job.st) /\ job' # job)
             => /\ job'.pc = "idle" /\ job'.outcome = "not_armed"
                /\ file' = file]_vars
    /\ [][ArmedIn(file') # ArmedIn(file)
             => /\ cmd.pc = "loaded"
                /\ cmd.kind = IF ArmedIn(file') THEN "run" ELSE "stop"]_vars
    /\ [][(cmd'.kind \in {"scheduler_on", "scheduler_off"} /\ cmd' # cmd)
             => file' = file]_vars

\* /scheduler_on has switched the scheduler on, the flag is not set, and a
\* cycle has started: it stands at its gate with the unarmed state
C29_Witness ==
    /\ cmd.kind = "scheduler_on" /\ cmd.pc = "reply"
    /\ sched.enabled
    /\ job.pc = "loaded" /\ ~ArmedIn(job.st)

====
